---------------------------- MODULE Spec2Model ----------------------------
(***************************************************************************)
(* A model of the ShaDa persistence core of src/nvim/shada.c: the record   *)
(* framing and payload codec, the history merger (HMLL), the merge pass    *)
(* run while writing, and the temp-file/rename sequence of                 *)
(* shada_write_file.  Files are sequences of bytes (0..255); strings are   *)
(* sequences of bytes without NUL.                                         *)
(***************************************************************************)
EXTENDS Integers, Sequences, FiniteSets, TLC

NULL == <<-1>>

\* A NULL AdditionalData pointer: no preserved items.
NoAdditionalData == [nitems |-> 0, data |-> <<>>]

\* ------------------------------------------------------------------------
\* Enumerations of shada.c
\* ------------------------------------------------------------------------
kSDItemUnknown == -1
kSDItemMissing == 0
kSDItemHeader == 1
kSDItemSearchPattern == 2
kSDItemSubString == 3
kSDItemHistoryEntry == 4
kSDItemRegister == 5
kSDItemVariable == 6
kSDItemGlobalMark == 7
kSDItemJump == 8
kSDItemBufferList == 9
kSDItemLocalMark == 10
kSDItemChange == 11
SHADA_LAST_ENTRY == 11

kSDReadStatusSuccess == "Success"
kSDReadStatusFinished == "Finished"
kSDReadStatusReadError == "ReadError"
kSDReadStatusNotShaDa == "NotShaDa"
kSDReadStatusMalformed == "Malformed"

kSDWriteSuccessful == "WriteSuccessful"
kSDWriteReadNotShada == "WriteReadNotShada"
kSDWriteFailed == "WriteFailed"
kSDWriteIgnError == "WriteIgnError"

\* SRNIFlags: a flag word is modelled as the set of its set bit positions.
kSDReadUnknown == SHADA_LAST_ENTRY + 1
kSDReadUndisableableData == {kSDItemSearchPattern, kSDItemSubString, kSDItemJump}

\* History kinds (HIST_CMD .. HIST_DEBUG) and their count.
HIST_CMD == 0
HIST_SEARCH == 1
HIST_COUNT == 5

\* Motion types of a register and the blob tag of a variable.
kMTCharWise == 0
kMTLineWise == 1
kMTBlockWise == 2
VAR_TYPE_BLOB == 10

\* '\n', the first byte of many files that are not ShaDa files.
NL == 10

\* The size unit of the 's' item-size option: max_kbyte * 1024 bytes.
KByte == 1024

\* ------------------------------------------------------------------------
\* The self-describing binary format (MessagePack), as the packer and
\* unpacker outside shada.c write and read it.
\* ------------------------------------------------------------------------
\* Values of 2^31 and more do not fit the model's integers: they saturate.
Huge == 2147483646 + 1

RECURSIVE Pow256(_)
Pow256(k) == IF k = 0 THEN 1 ELSE 256 * Pow256(k - 1)

\* Big-endian bytes of n in k <= 4 bytes.
BE(n, k) == [i \in 1..k |-> (n \div Pow256(k - i)) % 256]

\* Value of big-endian bytes b (Huge when it does not fit).
RECURSIVE BEValue(_)
BEValue(b) ==
  IF Len(b) = 0 THEN 0
  ELSE IF Len(b) > 4
    THEN IF \E i \in 1..(Len(b) - 4) : b[i] # 0 THEN Huge
         ELSE BEValue(SubSeq(b, Len(b) - 3, Len(b)))
  ELSE IF Len(b) = 4 /\ b[1] >= 128 THEN Huge
  ELSE b[Len(b)] + 256 * BEValue(SubSeq(b, 1, Len(b) - 1))

mpack_uint(n) ==
  IF n < 128 THEN <<n>>
  ELSE IF n < 256 THEN <<204, n>>
  ELSE IF n < 65536 THEN <<205>> \o BE(n, 2)
  ELSE <<206>> \o BE(n, 4)

mpack_uint64(n) == mpack_uint(n)

\* Signed integers: non-negative ones as unsigned, negative ones as
\* negative fixint / int8 / int16.
mpack_integer(i) ==
  IF i >= 0 THEN mpack_uint(i)
  ELSE IF i >= -32 THEN <<256 + i>>
  ELSE IF i >= -128 THEN <<208, 256 + i>>
  ELSE <<209>> \o BE(65536 + i, 2)

mpack_bool(b) == IF b THEN <<195>> ELSE <<194>>

mpack_bin(s) ==
  IF Len(s) < 256 THEN <<196, Len(s)>> \o s
  ELSE <<197>> \o BE(Len(s), 2) \o s

mpack_str(s) ==
  IF Len(s) < 32 THEN <<160 + Len(s)>> \o s
  ELSE <<217, Len(s)>> \o s

mpack_array(n) == IF n < 16 THEN <<144 + n>> ELSE <<220>> \o BE(n, 2)

mpack_map(n) == IF n < 16 THEN <<128 + n>> ELSE <<222>> \o BE(n, 2)

mpack_raw(data) == data

\* One token of b starting at index i (1-based): its kind, its value (the
\* number, or the length of a string, array or map) and the index after the
\* token's header.  status is "ok", "eof" (b ends inside the token) or "err".
\* The number of bytes after the first byte of a token's header.
TokLen(c) ==
  CASE c \in {196, 204, 208, 217} -> 1
    [] c \in {197, 205, 209, 218, 220, 222} -> 2
    [] c \in {198, 202, 206, 210, 219, 221, 223} -> 4
    [] c \in {203, 207, 211} -> 8
    [] OTHER -> 0

TokKind(c) ==
  CASE c \in {196, 197, 198} -> "bin"
    [] c \in {202, 203} -> "float"
    [] c \in {204, 205, 206, 207} -> "uint"
    [] c \in {208, 209, 210, 211} -> "sint"
    [] c \in {217, 218, 219} -> "str"
    [] c \in {220, 221} -> "array"
    [] c \in {222, 223} -> "map"
    [] OTHER -> "none"

Tok(status, kind, val, next) ==
  [status |-> status, kind |-> kind, val |-> val, next |-> next]

\* A token with an n-byte big-endian header value u; neg is its sign bit.
TokOf(kind, n, u, neg, next) ==
  IF kind = "sint" /\ neg
    THEN Tok("ok", "sint",
             IF n = 1 THEN u - 256 ELSE IF n = 2 THEN u - 65536 ELSE -Huge, next)
  ELSE IF kind = "sint" THEN Tok("ok", "uint", u, next)
  ELSE Tok("ok", kind, u, next)

TokHdr(b, i, n, kind) ==
  IF i + n > Len(b) THEN Tok("eof", kind, 0, i)
  ELSE TokOf(kind, n, BEValue(SubSeq(b, i + 1, i + n)), b[i + 1] >= 128, i + n + 1)

\* The token whose first byte is c = b[i].
TokAt(b, i, c) ==
  IF c < 128 THEN Tok("ok", "uint", c, i + 1)
  ELSE IF c < 144 THEN Tok("ok", "map", c - 128, i + 1)
  ELSE IF c < 160 THEN Tok("ok", "array", c - 144, i + 1)
  ELSE IF c < 192 THEN Tok("ok", "str", c - 160, i + 1)
  ELSE IF c >= 224 THEN Tok("ok", "sint", c - 256, i + 1)
  ELSE IF c = 192 THEN Tok("ok", "nil", 0, i + 1)
  ELSE IF c = 194 THEN Tok("ok", "bool", 0, i + 1)
  ELSE IF c = 195 THEN Tok("ok", "bool", 1, i + 1)
  ELSE IF TokLen(c) = 0 THEN Tok("err", "none", 0, i)
  ELSE TokHdr(b, i, TokLen(c), TokKind(c))

mpack_rtoken(b, i) ==
  IF i > Len(b) THEN Tok("eof", "none", 0, i) ELSE TokAt(b, i, b[i])

\* Skip n whole objects of b starting at index i: the status and the index
\* after them.  SkipToken skips the object whose first token is t.
RECURSIVE SkipObjects(_, _, _)
RECURSIVE SkipToken(_, _, _, _)
SkipObjects(b, i, n) ==
  IF n = 0 THEN [status |-> "ok", next |-> i]
  ELSE SkipToken(b, i, n, mpack_rtoken(b, i))

SkipToken(b, i, n, t) ==
  IF t.status # "ok" THEN [status |-> t.status, next |-> i]
  ELSE IF t.kind \in {"bin", "str"}
    THEN IF t.val > Len(b) \/ t.next + t.val - 1 > Len(b)
           THEN [status |-> "eof", next |-> i]
         ELSE SkipObjects(b, t.next + t.val, n - 1)
  ELSE IF t.kind \in {"array", "map"}
    THEN IF t.val > Len(b) THEN [status |-> "eof", next |-> i]
         ELSE SkipObjects(b, t.next,
                          n - 1 + (IF t.kind = "map" THEN 2 * t.val ELSE t.val))
  ELSE SkipObjects(b, t.next, n - 1)

unpack_skip(b, i) == SkipObjects(b, i, 1)

\* A string (bin or str) at index i: its bytes, or data = NULL.
StringOf(b, i, t) ==
  IF t.status = "ok" /\ t.kind \in {"bin", "str"} /\ t.val <= Len(b)
     /\ t.next + t.val - 1 <= Len(b)
    THEN [data |-> SubSeq(b, t.next, t.next + t.val - 1), next |-> t.next + t.val]
    ELSE [data |-> NULL, next |-> i]

unpack_string(b, i) == StringOf(b, i, mpack_rtoken(b, i))

IntegerOf(i, t) ==
  IF t.status = "ok" /\ t.kind \in {"uint", "sint"}
    THEN [ok |-> TRUE, val |-> t.val, next |-> t.next]
    ELSE [ok |-> FALSE, val |-> 0, next |-> i]

unpack_integer(b, i) == IntegerOf(i, mpack_rtoken(b, i))

\* The length of the array whose header is at index i, or -1.
ArrayOf(i, t) ==
  IF t.status = "ok" /\ t.kind = "array"
    THEN [len |-> t.val, next |-> t.next]
    ELSE [len |-> -1, next |-> i]

unpack_array(b, i) == ArrayOf(i, mpack_rtoken(b, i))


\* ------------------------------------------------------------------------
\* Records (ShadaEntry) and their defaults
\* ------------------------------------------------------------------------
\* Key names of the map-shaped payloads, as bytes.
KEY ==
  [sm |-> <<115, 109>>,
   sc |-> <<115, 99>>,
   sl |-> <<115, 108>>,
   se |-> <<115, 101>>,
   su |-> <<115, 117>>,
   ss |-> <<115, 115>>,
   sh |-> <<115, 104>>,
   so |-> <<115, 111>>,
   sp |-> <<115, 112>>,
   sb |-> <<115, 98>>,
   rt |-> <<114, 116>>,
   rw |-> <<114, 119>>,
   rc |-> <<114, 99>>,
   ru |-> <<114, 117>>,
   l |-> <<108>>,
   c |-> <<99>>,
   f |-> <<102>>,
   n |-> <<110>>]

\* '"', the default name of a global or local mark.
DQUOTE == 34

DEFAULT_POS == [lnum |-> 1, col |-> 0, coladd |-> 0]

\* sd_default_values[type].data
sd_default_values(type) ==
  CASE type = kSDItemHeader -> [items |-> <<>>]
    [] type = kSDItemSearchPattern ->
         [magic |-> TRUE, smartcase |-> FALSE, has_line_offset |-> FALSE,
          place_cursor_at_end |-> FALSE, offset |-> 0, is_last_used |-> TRUE,
          is_substitute_pattern |-> FALSE, highlighted |-> FALSE,
          search_backward |-> FALSE, pat |-> <<>>]
    [] type = kSDItemSubString -> [sub |-> NULL]
    [] type = kSDItemHistoryEntry -> [histtype |-> HIST_CMD, string |-> NULL, sep |-> 0]
    [] type = kSDItemRegister ->
         [name |-> 0, type |-> kMTCharWise, contents |-> <<>>,
          is_unnamed |-> FALSE, width |-> 0]
    [] type = kSDItemVariable ->
         [name |-> NULL, value |-> [v_type |-> "VAR_UNKNOWN", val |-> <<>>, num |-> 0]]
    [] type \in {kSDItemGlobalMark, kSDItemLocalMark} ->
         [name |-> DQUOTE, mark |-> DEFAULT_POS, fname |-> NULL]
    [] type \in {kSDItemJump, kSDItemChange} ->
         [name |-> 0, mark |-> DEFAULT_POS, fname |-> NULL]
    [] type = kSDItemBufferList -> [buffers |-> <<>>]
    [] OTHER -> [none |-> TRUE]

MissingEntry ==
  [type |-> kSDItemMissing, timestamp |-> 0, data |-> [none |-> TRUE],
   additional_data |-> NoAdditionalData]

\* ------------------------------------------------------------------------
\* Decoding of map payloads (unpack_keydict of the unpacker)
\* ------------------------------------------------------------------------
\* The field types of the three key sets.
DictHash_shada_search_pat ==
  (KEY.sm :> "bool") @@ (KEY.sc :> "bool") @@ (KEY.sl :> "bool")
  @@ (KEY.se :> "bool") @@ (KEY.su :> "bool") @@ (KEY.ss :> "bool")
  @@ (KEY.sh :> "bool") @@ (KEY.sb :> "bool") @@ (KEY.so :> "int")
  @@ (KEY.sp :> "str")

DictHash_shada_mark ==
  (KEY.n :> "int") @@ (KEY.l :> "int") @@ (KEY.c :> "int") @@ (KEY.f :> "str")

DictHash_shada_register ==
  (KEY.rc :> "strarray") @@ (KEY.n :> "int") @@ (KEY.rt :> "int")
  @@ (KEY.rw :> "int") @@ (KEY.ru :> "bool")

DictHash_shada_buflist_item ==
  (KEY.l :> "int") @@ (KEY.c :> "int") @@ (KEY.f :> "str")

\* push_additional_data: one more preserved item, its bytes appended.
push_additional_data(ad, bytes) ==
  IF ad = NoAdditionalData THEN [nitems |-> 1, data |-> bytes]
  ELSE [nitems |-> ad.nitems + 1, data |-> ad.data \o bytes]

\* n strings starting at index i; s is the string at i.
RECURSIVE UnpackStrings(_, _, _, _)
RECURSIVE UnpackStringsAt(_, _, _, _, _)
UnpackStrings(b, i, n, acc) ==
  IF n = 0 THEN [ok |-> TRUE, val |-> acc, next |-> i]
  ELSE UnpackStringsAt(b, i, n, acc, unpack_string(b, i))

UnpackStringsAt(b, i, n, acc, s) ==
  IF s.data = NULL THEN [ok |-> FALSE, val |-> acc, next |-> i]
  ELSE UnpackStrings(b, s.next, n - 1, Append(acc, s.data))

BoolOf(t) == [ok |-> t.status = "ok" /\ t.kind = "bool", val |-> (t.val = 1), next |-> t.next]

StrFieldOf(s) == [ok |-> s.data # NULL, val |-> s.data, next |-> s.next]

StrArrayOf(b, i, a) ==
  IF a.len < 0 \/ a.len > Len(b) THEN [ok |-> FALSE, val |-> <<>>, next |-> i]
  ELSE UnpackStrings(b, a.next, a.len, <<>>)

\* The value of a known key, by the field's type.
UnpackField(ftype, b, i) ==
  CASE ftype = "bool" -> BoolOf(mpack_rtoken(b, i))
    [] ftype = "int" -> unpack_integer(b, i)
    [] ftype = "str" -> StrFieldOf(unpack_string(b, i))
    [] ftype = "strarray" -> StrArrayOf(b, i, unpack_array(b, i))

\* The items of a map: KeyDictKey handles the item whose key is key,
\* KeyDictSkipped an unknown key whose value was skipped with result sk,
\* KeyDictValue a known key whose value was unpacked with result v.
RECURSIVE KeyDictItems(_, _, _, _, _, _)
RECURSIVE KeyDictKey(_, _, _, _, _, _, _)
RECURSIVE KeyDictSkipped(_, _, _, _, _, _, _)
RECURSIVE KeyDictValue(_, _, _, _, _, _, _, _)
KeyDictFail(vals, ad, i) == [ok |-> FALSE, vals |-> vals, ad |-> ad, next |-> i]

KeyDictItems(fields, b, i, n, vals, ad) ==
  IF n = 0 THEN [ok |-> TRUE, vals |-> vals, ad |-> ad, next |-> i]
  ELSE KeyDictKey(fields, b, i, n, vals, ad, unpack_string(b, i))

KeyDictKey(fields, b, i, n, vals, ad, key) ==
  IF key.data = NULL \/ key.data = <<>> THEN KeyDictFail(vals, ad, i)
  ELSE IF key.data \notin DOMAIN fields
    THEN KeyDictSkipped(fields, b, i, n, vals, ad, unpack_skip(b, key.next))
  ELSE IF key.data \in DOMAIN vals THEN KeyDictFail(vals, ad, i)
  ELSE KeyDictValue(fields, b, i, n, vals, ad, key.data,
                    UnpackField(fields[key.data], b, key.next))

KeyDictSkipped(fields, b, i, n, vals, ad, sk) ==
  IF sk.status # "ok" THEN KeyDictFail(vals, ad, i)
  ELSE KeyDictItems(fields, b, sk.next, n - 1, vals,
                    push_additional_data(ad, SubSeq(b, i, sk.next - 1)))

KeyDictValue(fields, b, i, n, vals, ad, key, v) ==
  IF ~v.ok THEN KeyDictFail(vals, ad, i)
  ELSE KeyDictItems(fields, b, v.next, n - 1, (key :> v.val) @@ vals, ad)

KeyDictOf(fields, b, i, t) ==
  IF t.status # "ok" \/ t.kind # "map" \/ t.val > Len(b)
    THEN KeyDictFail(<<>>, NoAdditionalData, i)
    ELSE KeyDictItems(fields, b, t.next, t.val, <<>>, NoAdditionalData)

\* unpack_keydict: the known keys present with their values, the unknown
\* keys as additional data, and the index after the map.
unpack_keydict(fields, b, i) == KeyDictOf(fields, b, i, mpack_rtoken(b, i))

HAS_KEY(it, key) == key \in DOMAIN it.vals

\* The value of key in a decoded key set, or the default dflt.
KeyOr(it, key, dflt) == IF HAS_KEY(it, key) THEN it.vals[key] ELSE dflt

\* ------------------------------------------------------------------------
\* Encoding of one record
\* ------------------------------------------------------------------------
additional_data_len(src) == IF src # NoAdditionalData THEN src.nitems ELSE 0

dump_additional_data(src) == IF src # NoAdditionalData THEN mpack_raw(src.data) ELSE <<>>

\* cstr_as_string: the bytes of a C string, up to its first NUL; NULL is empty.
RECURSIVE cstr_as_string(_)
cstr_as_string(s) ==
  IF s = NULL \/ s = <<>> THEN <<>>
  ELSE IF Head(s) = 0 THEN <<>>
  ELSE <<Head(s)>> \o cstr_as_string(Tail(s))

PACK_KEY(key) == mpack_str(key)

\* A variant that counts every optional key, default or not.
ONE_IF_always(b) == 1

ONE_IF(b) == IF b THEN 1 ELSE 0

\* encode_vim_to_msgpack, for the kinds of value the model uses: a value
\* is [v_type, val, num], val being the bytes of a string or blob and num
\* the number.  Strings and blobs are written as bin, numbers as integers,
\* a value kept in its encoded form as those bytes; a value that cannot be
\* serialized fails.
encode_vim_to_msgpack(value) ==
  CASE value.v_type \in {"VAR_STRING", "VAR_BLOB"} ->
         [ok |-> TRUE, bytes |-> mpack_bin(value.val)]
    [] value.v_type = "VAR_NUMBER" ->
         [ok |-> TRUE, bytes |-> mpack_integer(value.num)]
    [] value.v_type = "VAR_ENCODED" -> [ok |-> TRUE, bytes |-> value.val]
    [] OTHER -> [ok |-> FALSE, bytes |-> <<>>]

RECURSIVE PackBins(_)
PackBins(strs) ==
  IF strs = <<>> THEN <<>> ELSE mpack_bin(Head(strs)) \o PackBins(Tail(strs))

PackBufferListItem(b) ==
  mpack_map(1 + ONE_IF(b.pos.lnum # DEFAULT_POS.lnum)
              + ONE_IF(b.pos.col # DEFAULT_POS.col)
              + additional_data_len(b.additional_data))
  \o PACK_KEY(KEY.f) \o mpack_bin(cstr_as_string(b.fname))
  \o (IF b.pos.lnum # 1 THEN PACK_KEY(KEY.l) \o mpack_uint64(b.pos.lnum) ELSE <<>>)
  \o (IF b.pos.col # 0 THEN PACK_KEY(KEY.c) \o mpack_uint64(b.pos.col) ELSE <<>>)
  \o dump_additional_data(b.additional_data)

RECURSIVE PackBufferList(_)
PackBufferList(bufs) ==
  IF bufs = <<>> THEN <<>>
  ELSE PackBufferListItem(Head(bufs)) \o PackBufferList(Tail(bufs))

\* A header item is [key, value], the value [type, data, integer] being a
\* String (data) or an Integer (integer).
RECURSIVE PackHeaderItems(_)
PackHeaderItems(items) ==
  IF items = <<>> THEN <<>>
  ELSE mpack_str(Head(items).key)
       \o (IF Head(items).value.type = "String" THEN mpack_bin(Head(items).value.data)
           ELSE mpack_integer(Head(items).value.integer))
       \o PackHeaderItems(Tail(items))

PackSearchPattern(entry) ==
  LET d == entry.data
      dv == sd_default_values(kSDItemSearchPattern)
      PACK_BOOL(name, nondefault, dflt) ==
        IF nondefault THEN PACK_KEY(name) \o mpack_bool(~dflt) ELSE <<>>
  IN mpack_map(1 + ONE_IF(d.magic # dv.magic)
                 + ONE_IF(d.is_last_used # dv.is_last_used)
                 + ONE_IF(d.smartcase # dv.smartcase)
                 + ONE_IF(d.has_line_offset # dv.has_line_offset)
                 + ONE_IF(d.place_cursor_at_end # dv.place_cursor_at_end)
                 + ONE_IF(d.is_substitute_pattern # dv.is_substitute_pattern)
                 + ONE_IF(d.highlighted # dv.highlighted)
                 + ONE_IF(d.offset # dv.offset)
                 + ONE_IF(d.search_backward # dv.search_backward)
                 + additional_data_len(entry.additional_data))
     \o PACK_KEY(KEY.sp) \o mpack_bin(d.pat)
     \o PACK_BOOL(KEY.sm, d.magic # dv.magic, dv.magic)
     \o PACK_BOOL(KEY.su, d.is_last_used # dv.is_last_used, dv.is_last_used)
     \o PACK_BOOL(KEY.sc, d.smartcase # dv.smartcase, dv.smartcase)
     \o PACK_BOOL(KEY.sl, d.has_line_offset # dv.has_line_offset, dv.has_line_offset)
     \o PACK_BOOL(KEY.se, d.place_cursor_at_end # dv.place_cursor_at_end,
                  dv.place_cursor_at_end)
     \o PACK_BOOL(KEY.ss, d.is_substitute_pattern # dv.is_substitute_pattern,
                  dv.is_substitute_pattern)
     \o PACK_BOOL(KEY.sh, d.highlighted # dv.highlighted, dv.highlighted)
     \o PACK_BOOL(KEY.sb, d.search_backward # dv.search_backward, dv.search_backward)
     \o (IF d.offset # dv.offset THEN PACK_KEY(KEY.so) \o mpack_integer(d.offset)
         ELSE <<>>)
     \o dump_additional_data(entry.additional_data)

\* The count a re-encoded mark map declares.
MarkMapSize(entry) ==
  LET d == entry.data
      dv == sd_default_values(entry.type)
  IN 1 + ONE_IF(d.mark.lnum # dv.mark.lnum) + ONE_IF(d.mark.col # dv.mark.col)
       + ONE_IF(d.name # dv.name) + additional_data_len(entry.additional_data)

PackFilemark(entry) ==
  LET d == entry.data
      dv == sd_default_values(entry.type)
  IN mpack_map(MarkMapSize(entry))
     \o PACK_KEY(KEY.f) \o mpack_bin(cstr_as_string(d.fname))
     \o (IF d.mark.lnum # dv.mark.lnum
           THEN PACK_KEY(KEY.l) \o mpack_integer(d.mark.lnum) ELSE <<>>)
     \o (IF d.mark.col # dv.mark.col
           THEN PACK_KEY(KEY.c) \o mpack_integer(d.mark.col) ELSE <<>>)
     \o (IF d.name # dv.name THEN PACK_KEY(KEY.n) \o mpack_uint(d.name % 256) ELSE <<>>)
     \o dump_additional_data(entry.additional_data)

PackRegister(entry) ==
  LET d == entry.data
      dv == sd_default_values(kSDItemRegister)
  IN mpack_map(2 + ONE_IF(d.type # dv.type) + ONE_IF(d.width # dv.width)
                 + ONE_IF(d.is_unnamed # dv.is_unnamed)
                 + additional_data_len(entry.additional_data))
     \o PACK_KEY(KEY.rc) \o mpack_array(Len(d.contents)) \o PackBins(d.contents)
     \o PACK_KEY(KEY.n) \o mpack_uint(d.name % 256)
     \o (IF d.type # dv.type THEN PACK_KEY(KEY.rt) \o mpack_uint(d.type % 256) ELSE <<>>)
     \o (IF d.width # dv.width THEN PACK_KEY(KEY.rw) \o mpack_uint64(d.width) ELSE <<>>)
     \o (IF d.is_unnamed # dv.is_unnamed
           THEN PACK_KEY(KEY.ru) \o mpack_bool(d.is_unnamed) ELSE <<>>)
     \o dump_additional_data(entry.additional_data)

\* The array count a re-encoded history entry declares.
HistoryArrSize(entry) ==
  2 + ONE_IF(entry.data.histtype = HIST_SEARCH)
    + additional_data_len(entry.additional_data)

PackHistoryEntry(entry) ==
  LET d == entry.data
      is_hist_search == d.histtype = HIST_SEARCH
  IN mpack_array(HistoryArrSize(entry))
     \o mpack_uint(d.histtype) \o mpack_bin(cstr_as_string(d.string))
     \o (IF is_hist_search THEN mpack_uint(d.sep % 256) ELSE <<>>)
     \o dump_additional_data(entry.additional_data)

PackVariableOf(entry, enc) ==
  [ok |-> enc.ok,
   bytes |-> mpack_array(2 + ONE_IF(entry.data.value.v_type = "VAR_BLOB")
                           + additional_data_len(entry.additional_data))
             \o mpack_bin(cstr_as_string(entry.data.name)) \o enc.bytes
             \o (IF entry.data.value.v_type = "VAR_BLOB"
                   THEN mpack_integer(VAR_TYPE_BLOB) ELSE <<>>)
             \o dump_additional_data(entry.additional_data)]

PackVariable(entry) == PackVariableOf(entry, encode_vim_to_msgpack(entry.data.value))

\* The payload of a record (the string buffer sbuf of shada_pack_entry).
PackPayload(entry) ==
  CASE entry.type = kSDItemUnknown -> [ok |-> TRUE, bytes |-> mpack_raw(entry.data.contents)]
    [] entry.type = kSDItemHistoryEntry -> [ok |-> TRUE, bytes |-> PackHistoryEntry(entry)]
    [] entry.type = kSDItemVariable -> PackVariable(entry)
    [] entry.type = kSDItemSubString ->
         [ok |-> TRUE,
          bytes |-> mpack_array(1 + additional_data_len(entry.additional_data))
                    \o mpack_bin(cstr_as_string(entry.data.sub))
                    \o dump_additional_data(entry.additional_data)]
    [] entry.type = kSDItemSearchPattern -> [ok |-> TRUE, bytes |-> PackSearchPattern(entry)]
    [] entry.type \in {kSDItemChange, kSDItemGlobalMark, kSDItemLocalMark, kSDItemJump} ->
         [ok |-> TRUE, bytes |-> PackFilemark(entry)]
    [] entry.type = kSDItemRegister -> [ok |-> TRUE, bytes |-> PackRegister(entry)]
    [] entry.type = kSDItemBufferList ->
         [ok |-> TRUE,
          bytes |-> mpack_array(Len(entry.data.buffers))
                    \o PackBufferList(entry.data.buffers)]
    [] entry.type = kSDItemHeader ->
         [ok |-> TRUE,
          bytes |-> mpack_map(Len(entry.data.items)) \o PackHeaderItems(entry.data.items)]

\* shada_pack_entry once the payload is serialized into sbuf.
PackEntryOf(entry, max_kbyte, io_ok, sbuf) ==
  IF ~sbuf.ok THEN [ret |-> kSDWriteIgnError, bytes |-> <<>>]
  ELSE IF max_kbyte # 0 /\ Len(sbuf.bytes) > max_kbyte * KByte
    THEN [ret |-> kSDWriteSuccessful, bytes |-> <<>>]
  ELSE [ret |-> IF io_ok THEN kSDWriteSuccessful ELSE kSDWriteFailed,
        bytes |-> mpack_uint64(IF entry.type = kSDItemUnknown THEN entry.data.type
                               ELSE entry.type)
                  \o mpack_uint64(entry.timestamp)
                  \o (IF Len(sbuf.bytes) > 0
                        THEN mpack_uint64(Len(sbuf.bytes)) \o mpack_raw(sbuf.bytes)
                        ELSE <<>>)]

\* shada_pack_entry: the result and the bytes handed to the packer. io_ok
\* is whether the packer reports no error after the record (packer->anyint).
shada_pack_entry(entry, max_kbyte, io_ok) ==
  PackEntryOf(entry, max_kbyte, io_ok, PackPayload(entry))

\* ------------------------------------------------------------------------
\* Reading one record
\* ------------------------------------------------------------------------
\* A reader is [data |-> the bytes of the open file, err_at |-> the offset
\* at which the system fails a read, or -1]; a position is the number of
\* bytes consumed.
Min(a, b) == IF a < b THEN a ELSE b

\* file_read: the number of bytes obtained, negative on a system error.
file_read(rd, pos, n) ==
  LET got == Min(n, Len(rd.data) - pos) IN
  IF rd.err_at >= 0 /\ pos + got > rd.err_at THEN -1 ELSE got

file_eof(rd, pos) == pos >= Len(rd.data)

fread_len(rd, pos, length) ==
  LET read_bytes == file_read(rd, pos, length) IN
  IF read_bytes < 0 THEN kSDReadStatusReadError
  ELSE IF read_bytes # length THEN kSDReadStatusNotShaDa
  ELSE kSDReadStatusSuccess

sd_reader_skip(rd, pos, offset) ==
  LET skip_bytes == file_read(rd, pos, offset) IN
  IF skip_bytes < 0 THEN kSDReadStatusReadError
  ELSE IF skip_bytes # offset THEN kSDReadStatusNotShaDa
  ELSE kSDReadStatusSuccess

\* msgpack_read_uint64: big is set when the value exceeds PTRDIFF_MAX.
msgpack_read_uint64(rd, pos, allow_eof) ==
  LET read_bytes == file_read(rd, pos, 1)
      first_char == rd.data[pos + 1]
      length == CASE first_char = 204 -> 1 [] first_char = 205 -> 2
                  [] first_char = 206 -> 4 [] first_char = 207 -> 8
                  [] OTHER -> 0
      res(st, v, bg, np) == [status |-> st, val |-> v, big |-> bg, pos |-> np]
  IN IF read_bytes < 0 THEN res(kSDReadStatusReadError, 0, FALSE, pos)
     ELSE IF read_bytes = 0
       THEN IF allow_eof /\ file_eof(rd, pos)
              THEN res(kSDReadStatusFinished, 0, FALSE, pos)
              ELSE res(kSDReadStatusNotShaDa, 0, FALSE, pos)
     ELSE IF first_char < 128 THEN res(kSDReadStatusSuccess, first_char, FALSE, pos + 1)
     ELSE IF length = 0 THEN res(kSDReadStatusNotShaDa, 0, FALSE, pos + 1)
     ELSE LET fl_ret == fread_len(rd, pos + 1, length)
              buf == SubSeq(rd.data, pos + 2, pos + 1 + length)
          IN IF fl_ret # kSDReadStatusSuccess THEN res(fl_ret, 0, FALSE, pos + 1)
             ELSE res(kSDReadStatusSuccess, BEValue(buf),
                      length = 8 /\ buf[1] >= 128, pos + 1 + length)

shada_check_status(status, remaining) ==
  IF status = "ok" /\ remaining = 0 THEN kSDReadStatusSuccess
  ELSE kSDReadStatusNotShaDa

\* The trailing array elements of a payload, preserved as additional data.
RECURSIVE ReadAdditionalElements(_, _, _, _)
ReadAdditionalElements(buf, i, n, ad) ==
  IF n = 0 THEN [ok |-> TRUE, ad |-> ad, next |-> i]
  ELSE LET sk == unpack_skip(buf, i) IN
    IF sk.status # "ok" THEN [ok |-> FALSE, ad |-> ad, next |-> i]
    ELSE ReadAdditionalElements(buf, sk.next, n - 1,
                                push_additional_data(ad, SubSeq(buf, i, sk.next - 1)))

\* The result of decoding the typed part of a payload: the data, the
\* additional data found so far, the number of trailing array elements
\* still to be preserved, and the index after what was read.
DecFail == [ok |-> FALSE, data |-> [none |-> TRUE], ad |-> NoAdditionalData, more |-> 0, next |-> 1]

DecOk(data, ad, more, next) ==
  [ok |-> TRUE, data |-> data, ad |-> ad, more |-> more, next |-> next]

SearchPatternOf(it, dv) ==
  IF ~it.ok \/ ~HAS_KEY(it, KEY.sp) THEN DecFail
  ELSE DecOk([magic |-> KeyOr(it, KEY.sm, dv.magic),
              smartcase |-> KeyOr(it, KEY.sc, dv.smartcase),
              has_line_offset |-> KeyOr(it, KEY.sl, dv.has_line_offset),
              place_cursor_at_end |-> KeyOr(it, KEY.se, dv.place_cursor_at_end),
              offset |-> KeyOr(it, KEY.so, dv.offset),
              is_last_used |-> KeyOr(it, KEY.su, dv.is_last_used),
              is_substitute_pattern |-> KeyOr(it, KEY.ss, dv.is_substitute_pattern),
              highlighted |-> KeyOr(it, KEY.sh, dv.highlighted),
              search_backward |-> KeyOr(it, KEY.sb, dv.search_backward),
              pat |-> it.vals[KEY.sp]], it.ad, 0, it.next)

DecodeSearchPattern(buf) ==
  SearchPatternOf(unpack_keydict(DictHash_shada_search_pat, buf, 1),
                  sd_default_values(kSDItemSearchPattern))

FilemarkOf(type, it, dv) ==
  IF ~it.ok THEN DecFail
  ELSE IF HAS_KEY(it, KEY.n) /\ type \in {kSDItemJump, kSDItemChange} THEN DecFail
  ELSE IF KeyOr(it, KEY.f, dv.fname) = NULL THEN DecFail
  ELSE IF KeyOr(it, KEY.l, dv.mark.lnum) <= 0 THEN DecFail
  ELSE IF KeyOr(it, KEY.c, dv.mark.col) < 0 THEN DecFail
  ELSE DecOk([name |-> IF HAS_KEY(it, KEY.n) THEN it.vals[KEY.n] % 256 ELSE dv.name,
              mark |-> [lnum |-> KeyOr(it, KEY.l, dv.mark.lnum),
                        col |-> KeyOr(it, KEY.c, dv.mark.col),
                        coladd |-> dv.mark.coladd],
              fname |-> it.vals[KEY.f]], it.ad, 0, it.next)

DecodeFilemark(type, buf) ==
  FilemarkOf(type, unpack_keydict(DictHash_shada_mark, buf, 1), sd_default_values(type))

RegisterOf(it, dv) ==
  IF ~it.ok THEN DecFail
  ELSE IF KeyOr(it, KEY.rc, <<>>) = <<>> THEN DecFail
  ELSE DecOk([name |-> IF HAS_KEY(it, KEY.n) THEN it.vals[KEY.n] % 256 ELSE dv.name,
              type |-> IF HAS_KEY(it, KEY.rt) THEN it.vals[KEY.rt] % 256 ELSE dv.type,
              contents |-> it.vals[KEY.rc],
              is_unnamed |-> KeyOr(it, KEY.ru, dv.is_unnamed),
              width |-> KeyOr(it, KEY.rw, dv.width)], it.ad, 0, it.next)

DecodeRegister(buf) ==
  RegisterOf(unpack_keydict(DictHash_shada_register, buf, 1),
             sd_default_values(kSDItemRegister))

\* A history entry: the array header a, then the type hist_type, the
\* string item and, for a search entry, the separator sep_type.
HistorySepOf(len, histtype, item, sep_type) ==
  IF ~sep_type.ok THEN DecFail
  ELSE DecOk([histtype |-> histtype, string |-> item.data, sep |-> sep_type.val % 256],
             NoAdditionalData, len - 3, sep_type.next)

HistoryItemOf(buf, len, histtype, item) ==
  IF item.data = NULL THEN DecFail
  ELSE IF \E k \in 1..Len(item.data) : item.data[k] = 0 THEN DecFail
  ELSE IF histtype = HIST_SEARCH
    THEN IF len < 3 THEN DecFail
         ELSE HistorySepOf(len, histtype, item, unpack_integer(buf, item.next))
  ELSE DecOk([histtype |-> histtype, string |-> item.data,
              sep |-> sd_default_values(kSDItemHistoryEntry).sep],
             NoAdditionalData, len - 2, item.next)

HistoryTypeOf(buf, len, hist_type) ==
  IF ~hist_type.ok THEN DecFail
  ELSE HistoryItemOf(buf, len, hist_type.val % 256, unpack_string(buf, hist_type.next))

HistoryArrayOf(buf, a) ==
  IF a.len < 2 THEN DecFail
  ELSE HistoryTypeOf(buf, a.len, unpack_integer(buf, a.next))

DecodeHistoryEntry(buf) == HistoryArrayOf(buf, unpack_array(buf, 1))

\* unpack_typval, for the kinds of value the model uses: an integer
\* becomes a number; any other well-formed object is kept in its encoded
\* form.
TypvalSkipped(buf, i, sk) ==
  [ok |-> sk.status = "ok",
   value |-> [v_type |-> "VAR_ENCODED",
              val |-> IF sk.status = "ok" THEN SubSeq(buf, i, sk.next - 1) ELSE <<>>,
              num |-> 0],
   next |-> sk.next]

TypvalOf(buf, i, n) ==
  IF n.ok THEN [ok |-> TRUE, value |-> [v_type |-> "VAR_NUMBER", val |-> <<>>, num |-> n.val],
                next |-> n.next]
  ELSE TypvalSkipped(buf, i, unpack_skip(buf, i))

unpack_typval(buf, i) == TypvalOf(buf, i, unpack_integer(buf, i))

\* A variable: the array header a, the name, then the value: a string
\* binval followed by the blob tag type, a string alone, or any other
\* value tv.
VariableBlobOf(len, name, binval, type) ==
  IF ~type.ok \/ type.val # VAR_TYPE_BLOB THEN DecFail
  ELSE DecOk([name |-> name.data,
              value |-> [v_type |-> "VAR_BLOB", val |-> binval.data, num |-> 0]],
             NoAdditionalData, len - 3, type.next)

VariableTypvalOf(len, name, tv) ==
  IF ~tv.ok THEN DecFail
  ELSE DecOk([name |-> name.data, value |-> tv.value], NoAdditionalData, len - 2, tv.next)

VariableValueOf(buf, len, name, binval) ==
  IF binval.data # NULL
    THEN IF len > 2
           THEN VariableBlobOf(len, name, binval, unpack_integer(buf, binval.next))
           ELSE DecOk([name |-> name.data,
                       value |-> [v_type |-> "VAR_STRING", val |-> binval.data, num |-> 0]],
                      NoAdditionalData, len - 2, binval.next)
  ELSE VariableTypvalOf(len, name, unpack_typval(buf, name.next))

VariableNameOf(buf, len, name) ==
  IF name.data = NULL THEN DecFail
  ELSE VariableValueOf(buf, len, name, unpack_string(buf, name.next))

VariableArrayOf(buf, a) ==
  IF a.len < 2 THEN DecFail
  ELSE VariableNameOf(buf, a.len, unpack_string(buf, a.next))

DecodeVariable(buf) == VariableArrayOf(buf, unpack_array(buf, 1))

SubStringOf(len, sub) ==
  IF sub.data = NULL THEN DecFail
  ELSE DecOk([sub |-> sub.data], NoAdditionalData, len - 1, sub.next)

SubStringArrayOf(buf, a) ==
  IF a.len < 1 THEN DecFail
  ELSE SubStringOf(a.len, unpack_string(buf, a.next))

DecodeSubString(buf) == SubStringArrayOf(buf, unpack_array(buf, 1))

RECURSIVE DecodeBuffers(_, _, _, _)
RECURSIVE BufferOf(_, _, _, _)
DecodeBuffers(buf, i, n, acc) ==
  IF n = 0 THEN DecOk([buffers |-> acc], NoAdditionalData, 0, i)
  ELSE BufferOf(buf, n, acc, unpack_keydict(DictHash_shada_buflist_item, buf, i))

BufferOf(buf, n, acc, it) ==
  IF ~it.ok THEN DecFail
  ELSE IF KeyOr(it, KEY.l, DEFAULT_POS.lnum) <= 0 \/ KeyOr(it, KEY.c, DEFAULT_POS.col) < 0
          \/ ~HAS_KEY(it, KEY.f)
    THEN DecFail
  ELSE DecodeBuffers(buf, it.next, n - 1,
                     Append(acc, [pos |-> [lnum |-> KeyOr(it, KEY.l, DEFAULT_POS.lnum),
                                           col |-> KeyOr(it, KEY.c, DEFAULT_POS.col),
                                           coladd |-> DEFAULT_POS.coladd],
                                  fname |-> it.vals[KEY.f],
                                  additional_data |-> it.ad]))

BufferListOf(buf, a) ==
  IF a.len < 0 \/ a.len > Len(buf) THEN DecFail
  ELSE DecodeBuffers(buf, a.next, a.len, <<>>)

DecodeBufferList(buf) == BufferListOf(buf, unpack_array(buf, 1))

\* The switch of shada_read_next_item over the known types.
DecodeTyped(type, buf) ==
  CASE type = kSDItemHeader -> DecOk(sd_default_values(type), NoAdditionalData, 0, 1)
    [] type = kSDItemSearchPattern -> DecodeSearchPattern(buf)
    [] type \in {kSDItemChange, kSDItemJump, kSDItemGlobalMark, kSDItemLocalMark} ->
         DecodeFilemark(type, buf)
    [] type = kSDItemRegister -> DecodeRegister(buf)
    [] type = kSDItemHistoryEntry -> DecodeHistoryEntry(buf)
    [] type = kSDItemVariable -> DecodeVariable(buf)
    [] type = kSDItemSubString -> DecodeSubString(buf)
    [] type = kSDItemBufferList -> DecodeBufferList(buf)

\* The check for leftover bytes after the trailing elements.
DecodeRest(buf, d, more) ==
  IF ~more.ok THEN DecFail
  ELSE IF more.next # Len(buf) + 1 THEN DecFail
  ELSE DecOk(d.data, more.ad, 0, more.next)

\* The trailing elements after the typed part d.
DecodeMore(buf, d) ==
  IF ~d.ok \/ d.more > Len(buf) THEN DecFail
  ELSE DecodeRest(buf, d, ReadAdditionalElements(buf, d.next, d.more, d.ad))

DecodePayload(type, buf) == DecodeMore(buf, DecodeTyped(type, buf))

ReadResult(status, entry, pos) == [status |-> status, entry |-> entry, pos |-> pos]

\* shada_read_next_item: the status, the entry and the position after the
\* call. flags is the set of enabled bit positions of SRNIFlags.  The
\* steps: the three integers t (type), ts (timestamp) and ln (length),
\* then the payload buf of a record that is not skipped.
RECURSIVE shada_read_next_item(_, _, _, _)
RECURSIVE ReadType(_, _, _, _, _)
RECURSIVE ReadTimestamp(_, _, _, _, _, _)
RECURSIVE ReadLength(_, _, _, _, _, _, _)
RECURSIVE ReadSkip(_, _, _, _, _, _)
RECURSIVE ReadVerify(_, _, _, _, _, _)
shada_read_next_item(rd, pos, flags, max_kbyte) ==
  IF file_eof(rd, pos) THEN ReadResult(kSDReadStatusFinished, MissingEntry, pos)
  ELSE ReadType(rd, pos, flags, max_kbyte, msgpack_read_uint64(rd, pos, TRUE))

ReadType(rd, pos, flags, max_kbyte, t) ==
  IF t.status # kSDReadStatusSuccess THEN ReadResult(t.status, MissingEntry, pos)
  ELSE ReadTimestamp(rd, pos, flags, max_kbyte, t.val,
                     msgpack_read_uint64(rd, t.pos, FALSE))

ReadTimestamp(rd, pos, flags, max_kbyte, type_u64, ts) ==
  IF ts.status # kSDReadStatusSuccess THEN ReadResult(ts.status, MissingEntry, pos)
  ELSE ReadLength(rd, pos, flags, max_kbyte, type_u64, ts.val,
                  msgpack_read_uint64(rd, ts.pos, FALSE))

ReadSkipped_no_cap(flags, max_kbyte, type_u64, length) ==
  IF type_u64 > SHADA_LAST_ENTRY THEN kSDReadUnknown \notin flags
  ELSE type_u64 \notin flags

\* Whether the record is skipped: its type is not wanted or it is too long.
ReadSkipped(flags, max_kbyte, type_u64, length) ==
  \/ IF type_u64 > SHADA_LAST_ENTRY THEN kSDReadUnknown \notin flags
     ELSE type_u64 \notin flags
  \/ max_kbyte # 0 /\ length > max_kbyte * KByte

\* An unknown record: its payload is checked only at the start of the file.
ReadUnknown(pos, type_u64, timestamp, parse_pos, buf, spm_ret) ==
  IF pos = 0 /\ spm_ret # kSDReadStatusSuccess THEN ReadResult(spm_ret, MissingEntry, pos)
  ELSE ReadResult(kSDReadStatusSuccess,
                  [type |-> kSDItemUnknown, timestamp |-> timestamp,
                   data |-> [type |-> type_u64, contents |-> buf],
                   additional_data |-> NoAdditionalData],
                  parse_pos + Len(buf))

\* A variant of ReadKnown that differs from the code: the reader is left
\* where the payload of a malformed record begins, as if it were put back.
ReadKnown_put_back(type_u64, timestamp, parse_pos, length, dec) ==
  IF ~dec.ok THEN ReadResult(kSDReadStatusMalformed, MissingEntry, 0)
  ELSE ReadResult(kSDReadStatusSuccess,
                  [type |-> type_u64, timestamp |-> timestamp, data |-> dec.data,
                   additional_data |-> dec.ad],
                  parse_pos + length)

ReadKnown(type_u64, timestamp, parse_pos, length, dec) ==
  IF ~dec.ok THEN ReadResult(kSDReadStatusMalformed, MissingEntry, parse_pos + length)
  ELSE ReadResult(kSDReadStatusSuccess,
                  [type |-> type_u64, timestamp |-> timestamp, data |-> dec.data,
                   additional_data |-> dec.ad],
                  parse_pos + length)

\* The payload checked as one whole object (unpack_skip, shada_check_status).
CheckPayload(buf, sk) == shada_check_status(sk.status, Len(buf) - (sk.next - 1))

ReadPayload(pos, type_u64, timestamp, parse_pos, buf) ==
  IF type_u64 > SHADA_LAST_ENTRY
    THEN ReadUnknown(pos, type_u64, timestamp, parse_pos, buf,
                     CheckPayload(buf, unpack_skip(buf, 1)))
    ELSE ReadKnown(type_u64, timestamp, parse_pos, Len(buf), DecodePayload(type_u64, buf))

ReadSkip(rd, pos, flags, max_kbyte, next_pos, srs_ret) ==
  IF srs_ret # kSDReadStatusSuccess THEN ReadResult(srs_ret, MissingEntry, pos)
  ELSE shada_read_next_item(rd, next_pos, flags, max_kbyte)

ReadVerify(rd, pos, flags, max_kbyte, next_pos, spm_ret) ==
  IF spm_ret # kSDReadStatusSuccess THEN ReadResult(spm_ret, MissingEntry, pos)
  ELSE shada_read_next_item(rd, next_pos, flags, max_kbyte)

\* ReadLength without the check of the first record of a file.
ReadLength_no_first_check(rd, pos, flags, max_kbyte, type_u64, timestamp, ln) ==
  IF ln.status # kSDReadStatusSuccess THEN ReadResult(ln.status, MissingEntry, pos)
  ELSE IF ln.big THEN ReadResult(kSDReadStatusNotShaDa, MissingEntry, pos)
  ELSE IF type_u64 = 0 THEN ReadResult(kSDReadStatusNotShaDa, MissingEntry, pos)
  ELSE IF ReadSkipped(flags, max_kbyte, type_u64, ln.val)
    THEN ReadSkip(rd, pos, flags, max_kbyte, ln.pos + ln.val,
                  sd_reader_skip(rd, ln.pos, ln.val))
  ELSE IF fread_len(rd, ln.pos, ln.val) # kSDReadStatusSuccess
    THEN ReadResult(fread_len(rd, ln.pos, ln.val), MissingEntry, pos)
  ELSE ReadPayload(pos, type_u64, timestamp, ln.pos,
                   SubSeq(rd.data, ln.pos + 1, ln.pos + ln.val))

ReadLength(rd, pos, flags, max_kbyte, type_u64, timestamp, ln) ==
  IF ln.status # kSDReadStatusSuccess THEN ReadResult(ln.status, MissingEntry, pos)
  ELSE IF ln.big THEN ReadResult(kSDReadStatusNotShaDa, MissingEntry, pos)
  ELSE IF type_u64 = 0 THEN ReadResult(kSDReadStatusNotShaDa, MissingEntry, pos)
  ELSE IF ReadSkipped(flags, max_kbyte, type_u64, ln.val)
          /\ ~(pos = 0 /\ (type_u64 = NL \/ type_u64 > SHADA_LAST_ENTRY))
    THEN ReadSkip(rd, pos, flags, max_kbyte, ln.pos + ln.val,
                  sd_reader_skip(rd, ln.pos, ln.val))
  ELSE IF fread_len(rd, ln.pos, ln.val) # kSDReadStatusSuccess
    THEN ReadResult(fread_len(rd, ln.pos, ln.val), MissingEntry, pos)
  ELSE IF ReadSkipped(flags, max_kbyte, type_u64, ln.val)
    THEN ReadVerify(rd, pos, flags, max_kbyte, ln.pos + ln.val,
                    CheckPayload(SubSeq(rd.data, ln.pos + 1, ln.pos + ln.val),
                                 unpack_skip(SubSeq(rd.data, ln.pos + 1, ln.pos + ln.val), 1)))
  ELSE ReadPayload(pos, type_u64, timestamp, ln.pos,
                   SubSeq(rd.data, ln.pos + 1, ln.pos + ln.val))

\* ------------------------------------------------------------------------
\* The sized linked list of the history merger (HMLList)
\* ------------------------------------------------------------------------
\* Nodes live in an arena entries[1..size]; a node pointer is its index,
\* 0 is NULL.  last_free_entry is the number of arena nodes handed out
\* (the offset of the pointer from entries).  assert_failed records that
\* an assertion of hmll_remove or hmll_insert did not hold.
EmptyNode == [data |-> MissingEntry, can_free_entry |-> FALSE, next |-> 0, prev |-> 0]

hmll_init(size) ==
  [entries |-> [i \in 1..size |-> EmptyNode], first |-> 0, last |-> 0,
   free_entry |-> 0, last_free_entry |-> 0, size |-> size, num_entries |-> 0,
   contained_entries |-> <<>>, assert_failed |-> FALSE]

HistKey(entry) == cstr_as_string(entry.data.string)

\* A variant of hmll_remove that differs from the code: the node removed
\* is not remembered in free_entry.
hmll_remove_forget_node(hmll, hmll_entry) ==
  LET node == hmll.entries[hmll_entry]
      top == hmll_entry = hmll.last_free_entry
      key == HistKey(node.data)
      e1 == IF node.next = 0 THEN hmll.entries
            ELSE [hmll.entries EXCEPT ![node.next].prev = node.prev]
      e2 == IF node.prev = 0 THEN e1 ELSE [e1 EXCEPT ![node.prev].next = node.next]
  IN [hmll EXCEPT
        !.last_free_entry = IF top THEN @ - 1 ELSE @,
        !.assert_failed = @ \/ key \notin DOMAIN hmll.contained_entries,
        !.contained_entries = [k \in DOMAIN @ \ {key} |-> @[k]],
        !.last = IF node.next = 0 THEN node.prev ELSE @,
        !.first = IF node.prev = 0 THEN node.next ELSE @,
        !.entries = e2,
        !.num_entries = @ - 1]

hmll_remove(hmll, hmll_entry) ==
  LET node == hmll.entries[hmll_entry]
      top == hmll_entry = hmll.last_free_entry
      key == HistKey(node.data)
      e1 == IF node.next = 0 THEN hmll.entries
            ELSE [hmll.entries EXCEPT ![node.next].prev = node.prev]
      e2 == IF node.prev = 0 THEN e1 ELSE [e1 EXCEPT ![node.prev].next = node.next]
  IN [hmll EXCEPT
        !.last_free_entry = IF top THEN @ - 1 ELSE @,
        !.free_entry = IF top THEN @ ELSE hmll_entry,
        !.assert_failed = @ \/ (~top /\ hmll.free_entry # 0)
                            \/ key \notin DOMAIN hmll.contained_entries,
        !.contained_entries = [k \in DOMAIN @ \ {key} |-> @[k]],
        !.last = IF node.next = 0 THEN node.prev ELSE @,
        !.first = IF node.prev = 0 THEN node.next ELSE @,
        !.entries = e2,
        !.num_entries = @ - 1]

\* hmll_insert once the list has room: hmll_entry is the node to insert
\* after, or 0 to insert at the head.
hmll_insert_target(hmll, hmll_entry, data, can_free_entry) ==
  LET from_top == hmll.free_entry = 0
      target_entry == IF from_top THEN hmll.last_free_entry + 1 ELSE hmll.free_entry
      assert_ok == IF from_top THEN hmll.last_free_entry = hmll.num_entries
                   ELSE hmll.last_free_entry - 1 = hmll.num_entries
      key == HistKey(data)
      next == IF hmll_entry = 0 THEN hmll.first ELSE hmll.entries[hmll_entry].next
      Link(e) ==
        [i \in DOMAIN e |->
           IF i = target_entry
             THEN [data |-> data, can_free_entry |-> can_free_entry,
                   next |-> next, prev |-> hmll_entry]
           ELSE IF i = hmll_entry THEN [e[i] EXCEPT !.next = target_entry]
           ELSE IF i = next THEN [e[i] EXCEPT !.prev = target_entry]
           ELSE e[i]]
  IN IF target_entry > hmll.size
       THEN [hmll EXCEPT !.assert_failed = TRUE]
       ELSE [hmll EXCEPT
               !.last_free_entry = IF from_top THEN @ + 1 ELSE @,
               !.free_entry = 0,
               !.assert_failed = @ \/ ~assert_ok,
               !.contained_entries = IF key \in DOMAIN @ THEN @
                                     ELSE (key :> target_entry) @@ @,
               !.num_entries = @ + 1,
               !.first = IF hmll_entry = 0 THEN target_entry ELSE @,
               !.last = IF next = 0 THEN target_entry ELSE @,
               !.entries = Link(@)]

\* A variant of hmll_insert that differs from the code: a full list takes
\* no new entry.
hmll_insert_drop_new(hmll, hmll_entry, data, can_free_entry) ==
  IF hmll.num_entries = hmll.size THEN hmll
  ELSE hmll_insert_target(hmll, hmll_entry, data, can_free_entry)

hmll_insert(hmll, hmll_entry, data, can_free_entry) ==
  IF hmll.num_entries = hmll.size
    THEN IF hmll.first = 0 THEN [hmll EXCEPT !.assert_failed = TRUE]
         ELSE hmll_insert_target(hmll_remove(hmll, hmll.first),
                                 IF hmll_entry = hmll.first THEN 0 ELSE hmll_entry,
                                 data, can_free_entry)
    ELSE hmll_insert_target(hmll, hmll_entry, data, can_free_entry)

\* HMLL_FORALL: the entries of the list from first to last.
RECURSIVE HmllWalk(_, _, _)
HmllWalk(hmll, cur_entry, fuel) ==
  IF cur_entry = 0 \/ fuel = 0 THEN <<>>
  ELSE <<hmll.entries[cur_entry]>>
       \o HmllWalk(hmll, hmll.entries[cur_entry].next, fuel - 1)

HMLL_FORALL(hmll) == HmllWalk(hmll, hmll.first, hmll.size)

\* ------------------------------------------------------------------------
\* The history merger
\* ------------------------------------------------------------------------
\* The editor's history of one type is a sequence of histentry_T, oldest
\* first; an iterator is the index of the next entry, 0 for NULL.
hist_iter(iter, hist) ==
  LET hiter == IF iter = 0 THEN 1 ELSE iter IN
  IF hist = <<>> THEN [iter |-> 0, hist_he |-> [hisstr |-> NULL]]
  ELSE [iter |-> IF hiter = Len(hist) THEN 0 ELSE hiter + 1, hist_he |-> hist[hiter]]

shada_hist_iter(iter, history_type, hist) ==
  LET r == hist_iter(iter, hist) IN
  [iter |-> r.iter,
   hist |-> IF r.hist_he.hisstr = NULL THEN MissingEntry
            ELSE [type |-> kSDItemHistoryEntry, timestamp |-> r.hist_he.timestamp,
                  data |-> [histtype |-> history_type, string |-> r.hist_he.hisstr,
                            sep |-> IF history_type = HIST_SEARCH THEN r.hist_he.sep
                                    ELSE 0],
                  additional_data |-> r.hist_he.additional_data]]

hms_init(history_type, num_elements, do_merge, reading, hist) ==
  LET it == shada_hist_iter(0, history_type, hist) IN
  [hmll |-> hmll_init(num_elements), do_merge |-> do_merge, reading |-> reading,
   iter |-> it.iter, last_hist_entry |-> it.hist, history_type |-> history_type]

\* The last node, walking back from from, whose timestamp is not greater
\* than timestamp; 0 when there is none.
RECURSIVE InsertAfter(_, _, _)
InsertAfter(hmll, from, timestamp) ==
  IF from = 0 THEN 0
  ELSE IF hmll.entries[from].data.timestamp <= timestamp THEN from
  ELSE InsertAfter(hmll, hmll.entries[from].prev, timestamp)

\* A variant of hms_insert_sorted that differs from the code: the entry
\* always goes to the end of the list.
hms_insert_sorted_at_end(hmll, entry, can_free_entry) ==
  hmll_insert(hmll, hmll.last, entry, can_free_entry)

\* The insertion of hms_insert: after the last node not newer than entry.
hms_insert_sorted(hmll, entry, can_free_entry) ==
  hmll_insert(hmll, InsertAfter(hmll, hmll.last, entry.timestamp), entry, can_free_entry)

\* Variants of hms_insert_existing that differ from the code: the first
\* inserts the newer entry without removing the older one, the second
\* keeps the entry present on a tie.
hms_insert_existing_keep_both(hmll, existing_entry, entry, do_iter, can_free_entry) ==
  IF entry.timestamp > hmll.entries[existing_entry].data.timestamp
    THEN hms_insert_sorted(hmll, entry, can_free_entry)
  ELSE IF ~do_iter /\ entry.timestamp = hmll.entries[existing_entry].data.timestamp
    THEN [hmll EXCEPT !.entries[existing_entry].data = entry,
                      !.entries[existing_entry].can_free_entry = can_free_entry]
  ELSE hmll

hms_insert_existing_no_tie(hmll, existing_entry, entry, do_iter, can_free_entry) ==
  IF entry.timestamp > hmll.entries[existing_entry].data.timestamp
    THEN hms_insert_sorted(hmll_remove(hmll, existing_entry), entry, can_free_entry)
  ELSE hmll

\* hms_insert after its do_iter loop, when the string is present in node
\* existing_entry.
hms_insert_existing(hmll, existing_entry, entry, do_iter, can_free_entry) ==
  IF entry.timestamp > hmll.entries[existing_entry].data.timestamp
    THEN hms_insert_sorted(hmll_remove(hmll, existing_entry), entry, can_free_entry)
  ELSE IF ~do_iter /\ entry.timestamp = hmll.entries[existing_entry].data.timestamp
    THEN [hmll EXCEPT !.entries[existing_entry].data = entry,
                      !.entries[existing_entry].can_free_entry = can_free_entry]
  ELSE hmll

\* hms_insert after its do_iter loop: the lookup, the comparison with an
\* existing entry of the same string, and the insertion.
hms_insert_entry(hmll, entry, do_iter, can_free_entry) ==
  IF HistKey(entry) \in DOMAIN hmll.contained_entries
    THEN hms_insert_existing(hmll, hmll.contained_entries[HistKey(entry)], entry,
                             do_iter, can_free_entry)
    ELSE hms_insert_sorted(hmll, entry, can_free_entry)

\* The step of the editor's iterator after one of its entries was
\* inserted: with no entry left, stop is the state the loop is left in.
hms_advance(h1, hist, stop) ==
  IF h1.iter = 0 THEN stop
  ELSE [h1 EXCEPT !.iter = shada_hist_iter(h1.iter, h1.history_type, hist).iter,
                  !.last_hist_entry = shada_hist_iter(h1.iter, h1.history_type, hist).hist]

\* The editor's current entry inserted: hms_insert(hms_p, last_hist_entry,
\* false, reading).
hms_insert_last(hms_p) ==
  [hms_p EXCEPT !.hmll = hms_insert_entry(@, hms_p.last_hist_entry, FALSE, hms_p.reading)]

\* The do_iter loop of hms_insert: the editor's entries older than
\* timestamp are inserted first.
RECURSIVE hms_drain(_, _, _)
hms_drain_step(h1, hist, timestamp) ==
  IF h1.iter = 0 THEN [h1 EXCEPT !.last_hist_entry = MissingEntry]
  ELSE hms_drain(hms_advance(h1, hist, h1), hist, timestamp)

\* A variant of hms_drain that differs from the code: the editor's entries
\* wait for the finalisation.
hms_drain_none(hms_p, hist, timestamp) == hms_p

hms_drain(hms_p, hist, timestamp) ==
  IF hms_p.last_hist_entry.type # kSDItemMissing
     /\ hms_p.last_hist_entry.timestamp < timestamp
    THEN hms_drain_step(hms_insert_last(hms_p), hist, timestamp)
    ELSE hms_p

hms_insert(hms_p, hist, entry, do_iter, can_free_entry) ==
  [(IF do_iter THEN hms_drain(hms_p, hist, entry.timestamp) ELSE hms_p)
     EXCEPT !.hmll = hms_insert_entry(@, entry, do_iter, can_free_entry)]

RECURSIVE hms_insert_whole_neovim_history(_, _)
hms_whole_step(h1, hist) ==
  IF h1.iter = 0 THEN h1
  ELSE hms_insert_whole_neovim_history(hms_advance(h1, hist, h1), hist)

hms_insert_whole_neovim_history(hms_p, hist) ==
  IF hms_p.last_hist_entry.type # kSDItemMissing
    THEN hms_whole_step(hms_insert_last(hms_p), hist)
    ELSE hms_p

\* hms_to_he_array: the editor's new history array.
RECURSIVE HeArray(_)
HeArray(nodes) ==
  IF nodes = <<>> THEN <<>>
  ELSE <<[hisstr |-> Head(nodes).data.data.string,
          timestamp |-> Head(nodes).data.timestamp,
          sep |-> Head(nodes).data.data.sep,
          additional_data |-> Head(nodes).data.additional_data]>>
       \o HeArray(Tail(nodes))

hms_to_he_array(hms_p) == HeArray(HMLL_FORALL(hms_p.hmll))

\* ------------------------------------------------------------------------
\* State
\* ------------------------------------------------------------------------
VARIABLES
  hms_p,      \* HistoryMergerState of one history type
  hist,       \* the editor's history of that type (histentry_T, oldest first)
  hms_phase,  \* "merge": file records arrive; "drain": the rest of the
              \* editor's history is merged in; "done"
  hms_log,    \* history variable: the last hms_insert call and the
              \* (string, timestamp) pairs inserted from the file
  codec,      \* one record taken through shada_pack_entry and
              \* shada_read_next_item
  fs,         \* the ShaDa file and the temporary files next to it
  sess,       \* the calls of shada_write_file and shada_read_file under way
  wms_p       \* the numbered marks or the jump list of a WriteMergerState

hmsVars == <<hms_p, hist, hms_phase, hms_log>>

codecVars == <<codec>>

fileVars == <<fs, sess>>

wmsVars == <<wms_p>>

vars == <<hmsVars, codecVars, fileVars, wmsVars>>

\* ------------------------------------------------------------------------
\* Bounds and input sets
\* ------------------------------------------------------------------------
MaxTs == 2
MaxHist == 2
MaxRing == 2
MaxFileInserts == 2

HistStrings == {<<97>>, <<98>>, <<99>>}

Timestamps == 1..MaxTs

\* One preserved trailing element, as a file record may carry.
FileExtra == [nitems |-> 1, data |-> <<7>>]

EditorHistEntries ==
  [hisstr : HistStrings, timestamp : Timestamps, sep : {0},
   additional_data : {NoAdditionalData}]

SeqsUpTo(S, n) == UNION {[1..k -> S] : k \in 0..n}

\* The editor never holds one string twice in a history.
EditorHistories ==
  {h \in SeqsUpTo(EditorHistEntries, MaxHist) :
     \A i, j \in 1..Len(h) : i # j => h[i].hisstr # h[j].hisstr}

HistoryEntry(histtype, string, timestamp, ad) ==
  [type |-> kSDItemHistoryEntry, timestamp |-> timestamp,
   data |-> [histtype |-> histtype, string |-> string, sep |-> 0],
   additional_data |-> ad]

FileHistEntries ==
  {HistoryEntry(HIST_CMD, str, ts, FileExtra) : str \in HistStrings, ts \in Timestamps}

\* The value of codec while another part of the model runs.
CodecIdle == [pc |-> "idle"]

FileIdle == fs = [pc |-> "idle"] /\ sess = <<>>

WmsIdle == wms_p = [pc |-> "idle"]

\* ------------------------------------------------------------------------
\* The history merger as a state machine
\* ------------------------------------------------------------------------
NoCall ==
  [kind |-> "none", entry |-> MissingEntry, found |-> FALSE, existing_ts |-> 0,
   existing_can_free |-> FALSE]

\* What the lookup of hms_insert finds for entry in hmll.
CallOf(kind, hmll, entry) ==
  LET key == HistKey(entry)
      found == key \in DOMAIN hmll.contained_entries
      node == hmll.entries[hmll.contained_entries[key]]
  IN [kind |-> kind, entry |-> entry, found |-> found,
      existing_ts |-> IF found THEN node.data.timestamp ELSE 0,
      existing_can_free |-> IF found THEN node.can_free_entry ELSE FALSE]

\* Whether the call met an entry of the same string and timestamp, one of
\* the two being the editor's (the editor's entries are the ones that may
\* not be freed when writing).
IsEditorTie(call) ==
  /\ call.found
  /\ call.existing_ts = call.entry.timestamp
  /\ call.kind = "editor" \/ ~call.existing_can_free

LogCall(call) ==
  [call |-> call,
   file_seen |-> IF call.kind = "file"
                   THEN hms_log.file_seen
                        \cup {<<HistKey(call.entry), call.entry.timestamp>>}
                   ELSE hms_log.file_seen,
   ties |-> IF IsEditorTie(call) THEN hms_log.ties \cup {call.kind} ELSE hms_log.ties,
   ninserts |-> IF call.kind = "file" THEN hms_log.ninserts + 1 ELSE hms_log.ninserts]

\* The merger as shada_write sets it up for a merging write:
\* hms_init(hms, type, num_saved, sd_reader != NULL, false).
InitHms ==
  /\ hist \in EditorHistories
  /\ \E size \in 1..MaxRing : hms_p = hms_init(HIST_CMD, size, TRUE, FALSE, hist)
  /\ hms_phase = "merge"
  /\ hms_log = [call |-> NoCall, file_seen |-> {}, ties |-> {}, ninserts |-> 0]
  /\ codec = CodecIdle
  /\ FileIdle
  /\ WmsIdle

\* A history record of the file: hms_insert(hms, entry, true, true).
HmsInsertFromFile(entry) ==
  /\ hms_phase = "merge"
  /\ hms_log.ninserts < MaxFileInserts
  /\ hms_p' = hms_insert(hms_p, hist, entry, TRUE, TRUE)
  /\ hms_log' = LogCall(CallOf("file", hms_drain(hms_p, hist, entry.timestamp).hmll,
                                 entry))
  /\ UNCHANGED <<hist, hms_phase, codecVars, fileVars, wmsVars>>

\* The file is exhausted.
HmsEndOfFile ==
  /\ hms_phase = "merge"
  /\ hms_phase' = IF hms_p.last_hist_entry.type # kSDItemMissing THEN "drain" ELSE "done"
  /\ UNCHANGED <<hms_p, hist, hms_log, codecVars, fileVars, wmsVars>>

\* One iteration of the loop of hms_insert_whole_neovim_history.
HmsInsertNeovimStep ==
  /\ hms_phase = "drain"
  /\ hms_p' = hms_advance(hms_insert_last(hms_p), hist, hms_insert_last(hms_p))
  /\ hms_phase' = IF hms_p.iter = 0 THEN "done" ELSE "drain"
  /\ hms_log' = LogCall(CallOf("editor", hms_p.hmll, hms_p.last_hist_entry))
  /\ UNCHANGED <<hist, codecVars, fileVars, wmsVars>>

NextHms ==
  \/ \E entry \in FileHistEntries : HmsInsertFromFile(entry)
  \/ HmsEndOfFile
  \/ HmsInsertNeovimStep

SpecHms == InitHms /\ [][NextHms]_vars

\* The nodes of the ring holding string key.
RingNodesOf(key) ==
  {i \in 1..Len(HMLL_FORALL(hms_p.hmll)) : HistKey(HMLL_FORALL(hms_p.hmll)[i].data) = key}

Max(a, b) == IF a > b THEN a ELSE b

\* C9: the ring never holds two entries with the same string, and when an
\* entry for a string is inserted while the ring holds an entry for that
\* string, the one entry left for it carries the greater timestamp.
C9_NewestWins ==
  /\ \A key \in HistStrings : Cardinality(RingNodesOf(key)) <= 1
  /\ hms_log.call.found =>
       \E i \in RingNodesOf(HistKey(hms_log.call.entry)) :
         HMLL_FORALL(hms_p.hmll)[i].data.timestamp
           = Max(hms_log.call.existing_ts, hms_log.call.entry.timestamp)

\* A string was inserted with a greater timestamp than the entry present.
C9_Witness ==
  /\ hms_log.call.found
  /\ hms_log.call.existing_ts < hms_log.call.entry.timestamp
  /\ \E i \in RingNodesOf(HistKey(hms_log.call.entry)) :
       HMLL_FORALL(hms_p.hmll)[i].data.timestamp = hms_log.call.entry.timestamp

\* The editor's history entry i as the record its iterator yields.
EditorEntry(i) ==
  [type |-> kSDItemHistoryEntry, timestamp |-> hist[i].timestamp,
   data |-> [histtype |-> hms_p.history_type, string |-> hist[i].hisstr,
             sep |-> IF hms_p.history_type = HIST_SEARCH THEN hist[i].sep ELSE 0],
   additional_data |-> hist[i].additional_data]

\* The ring node of string key holds the editor's record and may not be freed.
HoldsEditorRecord(key) ==
  \E n \in RingNodesOf(key) :
    /\ ~HMLL_FORALL(hms_p.hmll)[n].can_free_entry
    /\ \E i \in 1..Len(hist) : HMLL_FORALL(hms_p.hmll)[n].data = EditorEntry(i)

HmsIdle ==
  /\ hms_p = [pc |-> "idle"]
  /\ hist = <<>>
  /\ hms_phase = "idle"
  /\ hms_log = [call |-> NoCall, file_seen |-> {}, ties |-> {}, ninserts |-> 0]

\* The flag words the program passes to shada_read_next_item: the one of
\* shada_read with every category wanted, and the one of shada_write with
\* every category dumped.
SrniRead ==
  kSDReadUndisableableData
  \cup {kSDItemRegister, kSDItemGlobalMark, kSDItemHistoryEntry, kSDItemVariable,
        kSDItemBufferList, kSDItemLocalMark, kSDItemChange}

SrniWrite ==
  kSDReadUndisableableData
  \cup {kSDReadUnknown, kSDItemHistoryEntry, kSDItemRegister, kSDItemVariable,
        kSDItemGlobalMark, kSDItemLocalMark, kSDItemChange}

\* Preserved items: one unknown key with its value (map-shaped payloads),
\* one trailing element (array-shaped payloads).
MapExtra == [nitems |-> 1, data |-> mpack_str(<<120>>) \o mpack_uint(1)]

ArrExtra == [nitems |-> 1, data |-> mpack_uint(7)]

Entry(type, timestamp, data, ad) ==
  [type |-> type, timestamp |-> timestamp, data |-> data, additional_data |-> ad]

SearchPatternEntries ==
  {Entry(kSDItemSearchPattern, ts,
         [sd_default_values(kSDItemSearchPattern) EXCEPT
            !.pat = <<120>>, !.magic = m, !.offset = off, !.is_substitute_pattern = sub],
         ad) :
     ts \in {1}, m \in BOOLEAN, off \in {0, -1}, sub \in BOOLEAN,
     ad \in {NoAdditionalData, MapExtra}}

SubStringEntries ==
  {Entry(kSDItemSubString, 1, [sub |-> sub], ad) :
     sub \in {<<>>, <<120>>}, ad \in {NoAdditionalData, ArrExtra}}

\* sep is the separator of a search history entry, 0 for the other kinds.
HistoryEntries ==
  {Entry(kSDItemHistoryEntry, 1, [histtype |-> h[1], string |-> <<97>>, sep |-> h[2]], ad) :
     h \in {<<HIST_CMD, 0>>, <<HIST_SEARCH, 47>>, <<HIST_COUNT, 0>>},
     ad \in {NoAdditionalData, ArrExtra}}

RegisterEntries ==
  {Entry(kSDItemRegister, 1,
         [name |-> 97, type |-> t[1], contents |-> c, is_unnamed |-> u, width |-> t[2]],
         ad) :
     t \in {<<kMTCharWise, 0>>, <<kMTLineWise, 0>>, <<kMTBlockWise, 3>>},
     c \in {<<(<<108>>)>>, <<(<<108>>), <<>> >>}, u \in BOOLEAN,
     ad \in {NoAdditionalData, MapExtra}}

\* A string variable never carries trailing elements: a string followed by
\* anything is decoded as a blob or not at all.
VariableEntries ==
  {e \in {Entry(kSDItemVariable, 1, [name |-> <<118>>, value |-> v], ad) :
            v \in {[v_type |-> "VAR_STRING", val |-> <<120>>, num |-> 0],
                   [v_type |-> "VAR_NUMBER", val |-> <<>>, num |-> 5],
                   [v_type |-> "VAR_NUMBER", val |-> <<>>, num |-> -3],
                   [v_type |-> "VAR_BLOB", val |-> <<1>>, num |-> 0],
                   [v_type |-> "VAR_FUNC", val |-> <<>>, num |-> 0]},
            ad \in {NoAdditionalData, ArrExtra}} :
     e.data.value.v_type = "VAR_STRING" => e.additional_data = NoAdditionalData}

\* Jumps and changes carry no name; coladd is the virtual column offset.
FilemarkEntries ==
  {Entry(tn[1], 1,
         [name |-> tn[2], mark |-> [lnum |-> l, col |-> 0, coladd |-> ca], fname |-> <<102>>],
         ad) :
     tn \in {<<kSDItemGlobalMark, 65>>, <<kSDItemGlobalMark, DQUOTE>>,
             <<kSDItemLocalMark, 97>>, <<kSDItemJump, 0>>, <<kSDItemChange, 0>>},
     l \in {1, 3}, ca \in {0, 1}, ad \in {NoAdditionalData, MapExtra}}

BufferListEntries ==
  {Entry(kSDItemBufferList, 1, [buffers |-> b], NoAdditionalData) :
     b \in {<<>>,
            <<[pos |-> DEFAULT_POS, fname |-> <<102>>, additional_data |-> NoAdditionalData]>>,
            <<[pos |-> [lnum |-> 2, col |-> 1, coladd |-> 0], fname |-> <<102>>,
               additional_data |-> MapExtra]>>}}

HeaderEntries ==
  {Entry(kSDItemHeader, 1, [items |-> it], NoAdditionalData) :
     it \in {<<>>, <<[key |-> <<112, 105, 100>>,
                      value |-> [type |-> "Integer", data |-> <<>>, integer |-> 1]]>>}}

\* A payload one byte longer than max_kbyte = 1 allows.
BigContents == [i \in 1..(KByte + 1) |-> 120]

UnknownEntries ==
  {Entry(kSDItemUnknown, 1, [type |-> t, contents |-> c], NoAdditionalData) :
     t \in {SHADA_LAST_ENTRY + 1, 100}, c \in {<<>>, <<1>>, <<1, 2>>, BigContents}}

BigRegisterEntry ==
  Entry(kSDItemRegister, 1,
        [name |-> 97, type |-> kMTCharWise, contents |-> <<BigContents>>,
         is_unnamed |-> FALSE, width |-> 0], NoAdditionalData)

KnownEntries ==
  SearchPatternEntries \cup SubStringEntries \cup HistoryEntries \cup RegisterEntries
  \cup VariableEntries \cup FilemarkEntries \cup BufferListEntries \cup HeaderEntries
  \cup {BigRegisterEntry}

CodecEntries == KnownEntries \cup UnknownEntries

\* The values of the 's' item-size option the codec is run with.
CodecMaxKbyte == {0, 1}

InitCodec ==
  /\ HmsIdle
  /\ FileIdle
  /\ WmsIdle
  /\ \E e \in CodecEntries, k \in CodecMaxKbyte, f \in {SrniRead, SrniWrite} :
       codec = [pc |-> "entry", entry |-> e, max_kbyte |-> k, flags |-> f,
                ret |-> kSDWriteSuccessful, bytes |-> <<>>,
                status |-> kSDReadStatusFinished, read |-> MissingEntry]

\* shada_pack_entry(packer, entry, max_kbyte) into an empty file.
CodecPack(io_ok) ==
  /\ codec.pc = "entry"
  /\ codec' = [codec EXCEPT
                 !.pc = "packed",
                 !.ret = shada_pack_entry(codec.entry, codec.max_kbyte, io_ok).ret,
                 !.bytes = shada_pack_entry(codec.entry, codec.max_kbyte, io_ok).bytes]
  /\ UNCHANGED <<hmsVars, fileVars, wmsVars>>

\* shada_read_next_item on a file holding what was packed.
CodecRead ==
  /\ codec.pc = "packed"
  /\ codec.ret = kSDWriteSuccessful
  /\ codec' = [codec EXCEPT
                 !.pc = "read",
                 !.status = shada_read_next_item([data |-> codec.bytes, err_at |-> -1], 0,
                                                 codec.flags, 0).status,
                 !.read = shada_read_next_item([data |-> codec.bytes, err_at |-> -1], 0,
                                               codec.flags, 0).entry]
  /\ UNCHANGED <<hmsVars, fileVars, wmsVars>>

NextCodec ==
  \/ \E io_ok \in BOOLEAN : CodecPack(io_ok)
  \/ CodecRead

SpecCodec == InitCodec /\ [][NextCodec]_vars

\* What the wire carries of a record: a position's coladd is not written.
RECURSIVE WireBuffers(_)
WireBuffers(bufs) ==
  IF bufs = <<>> THEN <<>>
  ELSE <<[Head(bufs) EXCEPT !.pos.coladd = DEFAULT_POS.coladd]>> \o WireBuffers(Tail(bufs))

WireImage(entry) ==
  IF entry.type \in {kSDItemGlobalMark, kSDItemLocalMark, kSDItemJump, kSDItemChange}
    THEN [entry EXCEPT !.data.mark.coladd = DEFAULT_POS.coladd]
  ELSE IF entry.type = kSDItemBufferList
    THEN [entry EXCEPT !.data.buffers = WireBuffers(@)]
  ELSE entry

\* A known record was written and the bytes were read back.
CodecRoundTrip ==
  /\ codec.pc = "read"
  /\ codec.entry.type # kSDItemUnknown
  /\ codec.bytes # <<>>

\* C7, as stated: decoding the bytes produced by encoding a known record
\* yields a record equal field-for-field to the original.
C7_RoundTrip ==
  CodecRoundTrip =>
    /\ codec.status = kSDReadStatusSuccess
    /\ codec.read = codec.entry

\* C7, amended: a known record other than a Header, read with its type
\* enabled, decodes to the original except for the coladd of its
\* positions, which is not written and decodes as the default; a Header
\* or a record of a type not enabled is not decoded at all.
C7_RoundTripOnWire ==
  CodecRoundTrip =>
    IF codec.entry.type = kSDItemHeader \/ codec.entry.type \notin codec.flags
      THEN codec.status = kSDReadStatusFinished /\ codec.read = MissingEntry
      ELSE /\ codec.status = kSDReadStatusSuccess
           /\ codec.read = WireImage(codec.entry)

\* A record with a field at its default and preserved items was decoded
\* back to itself.
C7_Witness ==
  /\ CodecRoundTrip
  /\ codec.entry.type = kSDItemRegister
  /\ codec.entry.data.type = sd_default_values(kSDItemRegister).type
  /\ codec.entry.additional_data = MapExtra
  /\ codec.read = codec.entry

\* ------------------------------------------------------------------------
\* shada_write: the packer and the write merger state
\* ------------------------------------------------------------------------
\* The packer of the file being written (packer_buffer_for_file): flushed
\* is what reached the file, buf what is still buffered, anyint the result
\* of the last flush (flush_file_buffer), npack the number of records
\* written into it.
packer_buffer_for_file == [flushed |-> <<>>, buf |-> <<>>, anyint |-> 0, npack |-> 0]

\* What the system does during one shada_write: the flush before record
\* number fail_at fails (-1: none does), heal says whether a flush that
\* follows a failed one succeeds, final_ok whether the flush at the end
\* succeeds, err_at is the offset at which reading the previous file fails
\* (-1: nowhere).
IoOk == [fail_at |-> -1, heal |-> FALSE, final_ok |-> TRUE, err_at |-> -1, qsort |-> <<>>]

\* packer->anyint once shada_check_buffer has run for the next record.
PackerAnyint(p, io) ==
  IF p.npack + 1 = io.fail_at THEN 1
  ELSE IF p.anyint # 0 /\ io.heal THEN 0
  ELSE p.anyint

\* The packer after shada_pack_entry returned r: a failed flush drops the
\* buffer, a successful one moves it to the file, and the record is
\* buffered. A record that is not written (r.bytes empty) touches nothing.
PackerPut(p, io, r) ==
  IF r.bytes = <<>> THEN p
  ELSE [flushed |-> IF p.npack + 1 # io.fail_at /\ p.anyint # 0 /\ io.heal
                      THEN p.flushed \o p.buf ELSE p.flushed,
        buf |-> IF p.npack + 1 = io.fail_at \/ (p.anyint # 0 /\ io.heal)
                  THEN r.bytes ELSE p.buf \o r.bytes,
        anyint |-> PackerAnyint(p, io),
        npack |-> p.npack + 1]

\* packer_flush at the end of shada_write: what the file holds afterwards.
packer_flush(p, io) == IF io.final_ok THEN p.flushed \o p.buf ELSE p.flushed

\* PossiblyFreedShadaEntry
PFSE(can_free_entry, entry) == [can_free_entry |-> can_free_entry, data |-> entry]

MissingPFSE == PFSE(FALSE, MissingEntry)

\* op_reg_index: the slot of a register name, -1 when it has none. Digits,
\* letters of either case and '-' have slots.
op_reg_index(name) ==
  IF name >= 48 /\ name <= 57 THEN name - 48
  ELSE IF name >= 97 /\ name <= 122 THEN name - 97 + 10
  ELSE IF name >= 65 /\ name <= 90 THEN name - 65 + 10
  ELSE IF name = 45 THEN 36
  ELSE -1

\* wms->registers, kept as a function from the occupied slots.
RegSlot(registers, idx) ==
  IF idx \in DOMAIN registers THEN registers[idx] ELSE MissingPFSE

RegPut(registers, idx, pfse) ==
  [j \in DOMAIN registers \cup {idx} |-> IF j = idx THEN pfse ELSE registers[j]]

\* The entry shada_initialize_registers builds from a register of the editor.
RegisterEntry(reg) ==
  [type |-> kSDItemRegister, timestamp |-> reg.timestamp,
   data |-> [name |-> reg.name, type |-> reg.y_type, contents |-> reg.y_array,
             is_unnamed |-> reg.is_unnamed,
             width |-> IF reg.y_type = kMTBlockWise THEN reg.y_width ELSE 0],
   additional_data |-> reg.additional_data]

RECURSIVE shada_initialize_registers(_, _, _)
shada_initialize_registers(registers, regs, max_reg_lines) ==
  IF regs = <<>> THEN registers
  ELSE IF max_reg_lines >= 0 /\ Len(Head(regs).y_array) > max_reg_lines
    THEN shada_initialize_registers(registers, Tail(regs), max_reg_lines)
  ELSE shada_initialize_registers(
         RegPut(registers, op_reg_index(Head(regs).name),
                PFSE(FALSE, RegisterEntry(Head(regs)))),
         Tail(regs), max_reg_lines)

\* add_search_pattern: the entry of one of the editor's two patterns, the
\* slot staying empty when the editor has none.
add_search_pattern(pat, is_substitute_pattern, search_last_used, search_highlighted) ==
  IF pat.pat = NULL THEN MissingPFSE
  ELSE PFSE(FALSE,
         [type |-> kSDItemSearchPattern, timestamp |-> pat.timestamp,
          data |->
            [magic |-> pat.magic, smartcase |-> ~pat.no_scs,
             has_line_offset |->
               IF is_substitute_pattern
                 THEN sd_default_values(kSDItemSearchPattern).has_line_offset
                 ELSE pat.off.line,
             place_cursor_at_end |->
               IF is_substitute_pattern
                 THEN sd_default_values(kSDItemSearchPattern).place_cursor_at_end
                 ELSE pat.off.end,
             offset |-> IF is_substitute_pattern
                          THEN sd_default_values(kSDItemSearchPattern).offset
                          ELSE pat.off.off,
             is_last_used |-> (is_substitute_pattern # search_last_used),
             is_substitute_pattern |-> is_substitute_pattern,
             highlighted |-> (is_substitute_pattern # search_last_used)
                             /\ search_highlighted,
             search_backward |-> ~is_substitute_pattern /\ pat.off.dir = 63,
             pat |-> cstr_as_string(pat.pat)],
          additional_data |-> pat.additional_data])

\* The replacement string of the editor as an entry; an empty one is not
\* stored.
ReplacementEntry(sub) ==
  IF sub.sub = NULL THEN MissingPFSE
  ELSE PFSE(FALSE, [type |-> kSDItemSubString, timestamp |-> sub.timestamp,
                    data |-> [sub |-> sub.sub],
                    additional_data |-> sub.additional_data])

\* A history merger the write never initialised (xcalloc).
ZeroHms ==
  [hmll |-> hmll_init(0), do_merge |-> FALSE, reading |-> FALSE, iter |-> 0,
   last_hist_entry |-> MissingEntry, history_type |-> 0]

\* ------------------------------------------------------------------------
\* shada_write: packing, the merge of the previous file
\* ------------------------------------------------------------------------
\* The state of one shada_write is w = [wms, packer, ret, spe_ret, reads,
\* packs]: the WriteMergerState, the packer, the function's ret, the result
\* of the last shada_pack_entry, and two history variables: the entries
\* shada_read_next_item returned and the shada_pack_entry calls made.
WritePackOf(w, entry, max_kbyte, io, r) ==
  [w EXCEPT !.packer = PackerPut(@, io, r),
            !.spe_ret = r.ret,
            !.packs = Append(@, [entry |-> entry, max_kbyte |-> max_kbyte,
                                 ret |-> r.ret, written |-> r.bytes # <<>>])]

\* shada_pack_entry(&packer, entry, max_kbyte) within shada_write.
WritePack(w, entry, max_kbyte, io) ==
  WritePackOf(w, entry, max_kbyte, io,
              shada_pack_entry(entry, max_kbyte, PackerAnyint(w.packer, io) = 0))

\* ret = shada_pack_entry(packer, entry, 0) of shada_read_when_writing.
PassThroughOf(w) == [w EXCEPT !.srww_ret = w.spe_ret]

PassThrough(w, entry, io) == PassThroughOf(WritePack(w, entry, 0, io))

COMPARE_WITH_ENTRY_mix(wms_entry, entry) ==
  IF wms_entry.data.type # kSDItemMissing /\ wms_entry.data.timestamp >= entry.timestamp
    THEN PFSE(wms_entry.can_free_entry,
              [wms_entry.data EXCEPT !.additional_data = entry.additional_data])
    ELSE PFSE(TRUE, entry)

\* COMPARE_WITH_ENTRY: the slot keeps its entry when that is at least as
\* new as the one from the file.
COMPARE_WITH_ENTRY(wms_entry, entry) ==
  IF wms_entry.data.type # kSDItemMissing /\ wms_entry.data.timestamp >= entry.timestamp
    THEN wms_entry
    ELSE PFSE(TRUE, entry)

JUMPLISTSIZE == 100

marks_equal(a, b) == a.lnum = b.lnum /\ a.col = b.col

\* The backward scan of the jump list: the index to insert at, -1 when an
\* entry not newer than the new one holds the same position of the same file.
RECURSIVE JumpScan(_, _, _)
\* A variant of JumpScan that differs from the code: no entry is taken for
\* a duplicate.
JumpScan_no_dedup(jumps, i, entry) ==
  LET S == {0} \cup {k \in 1..i : jumps[k].data.timestamp <= entry.timestamp}
  IN CHOOSE m \in S : \A x \in S : x <= m

JumpScan(jumps, i, entry) ==
  IF i = 0 THEN 0
  ELSE IF jumps[i].data.timestamp <= entry.timestamp
    THEN IF marks_equal(jumps[i].data.data.mark, entry.data.mark)
            /\ jumps[i].data.data.fname = entry.data.fname
           THEN -1 ELSE i
  ELSE JumpScan(jumps, i - 1, entry)

\* marklist_insert followed by the store: the list with pfse put at index
\* i (counted from 0), the oldest item discarded when the list is full.
\* A variant of marklist_insert that differs from the code: a full list
\* keeps its oldest entry when an entry is inserted.
marklist_insert_keep_oldest(jumps, i, pfse) ==
  IF i > 0
    THEN SubSeq(jumps, 1, i) \o <<pfse>> \o SubSeq(jumps, i + 1, Len(jumps))
  ELSE IF i = 0
    THEN IF Len(jumps) = JUMPLISTSIZE THEN jumps ELSE <<pfse>> \o jumps
  ELSE jumps

marklist_insert(jumps, i, pfse) ==
  IF i > 0
    THEN IF Len(jumps) = JUMPLISTSIZE
           THEN SubSeq(jumps, 2, i) \o <<pfse>> \o SubSeq(jumps, i + 1, Len(jumps))
           ELSE SubSeq(jumps, 1, i) \o <<pfse>> \o SubSeq(jumps, i + 1, Len(jumps))
  ELSE IF i = 0
    THEN IF Len(jumps) = JUMPLISTSIZE THEN jumps ELSE <<pfse>> \o jumps
  ELSE jumps

\* shada_removable: whether the file is under one of the directories the
\* 'shada' option excludes; ed.removable is the set of such files.
shada_removable(ed, fname) == fname \in ed.removable

\* The backward scan of a file's change list: as JumpScan, but the list
\* belongs to one file and only the positions are compared.
RECURSIVE ChangeScan(_, _, _)
ChangeScan(changes, i, entry) ==
  IF i = 0 THEN 0
  ELSE IF changes[i].data.timestamp <= entry.timestamp
    THEN IF marks_equal(changes[i].data.data.mark, entry.data.mark) THEN -1 ELSE i
  ELSE ChangeScan(changes, i - 1, entry)

\* A FileMarks structure as xcalloc leaves it; marks is kept as a function
\* from the occupied slots.
NoFileMarks ==
  [marks |-> <<>>, changes |-> <<>>, additional_marks |-> <<>>, greatest_timestamp |-> 0]

\* pmap_put_ref on wms->file_marks: the structure of the file, a new one
\* when the file has none yet.
FileMarksOf(file_marks, fname) ==
  IF fname \in DOMAIN file_marks THEN file_marks[fname] ELSE NoFileMarks

FileMarksPut(file_marks, fname, filemarks) ==
  [f \in DOMAIN file_marks \cup {fname} |->
     IF f = fname THEN filemarks ELSE file_marks[f]]

\* case kSDItemChange of shada_read_when_writing.
MergeChange(file_marks, entry) ==
  FileMarksPut(
    file_marks, entry.data.fname,
    [FileMarksOf(file_marks, entry.data.fname) EXCEPT
       !.changes = marklist_insert(@, ChangeScan(@, Len(@), entry), PFSE(TRUE, entry)),
       !.greatest_timestamp = Max(@, entry.timestamp)])

\* mark_local_index: a-z, then the marks ", ^ and .
mark_local_index(name) ==
  IF name >= 97 /\ name <= 122 THEN name - 97
  ELSE IF name = 34 THEN 26
  ELSE IF name = 94 THEN 27
  ELSE IF name = 46 THEN 28
  ELSE -1

\* The timestamps of the local mark name in the buffers of the file fname
\* (mark_get over FOR_ALL_BUFFERS); a mark that is not set has timestamp 0
\* and never keeps a record out.
BufferMarkTimestamps(ed, fname, name) ==
  UNION {{ed.buffers[b].marks[m].timestamp :
            m \in {k \in DOMAIN ed.buffers[b].marks :
                     ed.buffers[b].marks[k].data.name = name}} :
           b \in {k \in DOMAIN ed.buffers : ed.buffers[k].fname = fname}}

\* The slot of a local mark that the file's record is compared with: an
\* empty slot takes the record unless a buffer of the file has the mark at
\* least as new.
MergeLocalMarkSlot(slot, entry, ed) ==
  IF slot.data.type # kSDItemMissing
    THEN IF slot.data.timestamp >= entry.timestamp THEN slot ELSE PFSE(TRUE, entry)
  ELSE IF \E ts \in BufferMarkTimestamps(ed, entry.data.fname, entry.data.name) :
            ts >= entry.timestamp
    THEN slot
  ELSE PFSE(TRUE, entry)

\* case kSDItemLocalMark of shada_read_when_writing: a mark with a name
\* that has no slot is kept as it is.
MergeLocalMark(file_marks, entry, ed) ==
  FileMarksPut(
    file_marks, entry.data.fname,
    IF mark_local_index(entry.data.name) < 0
      THEN [FileMarksOf(file_marks, entry.data.fname) EXCEPT
              !.additional_marks = Append(@, entry),
              !.greatest_timestamp = Max(@, entry.timestamp)]
      ELSE [FileMarksOf(file_marks, entry.data.fname) EXCEPT
              !.marks = RegPut(@, mark_local_index(entry.data.name),
                               MergeLocalMarkSlot(
                                 RegSlot(@, mark_local_index(entry.data.name)), entry, ed)),
              !.greatest_timestamp = Max(@, entry.timestamp)])

\* mark_global_index: A-Z, then 0-9.
mark_global_index(name) ==
  IF name >= 65 /\ name <= 90 THEN name - 65
  ELSE IF name >= 48 /\ name <= 57 THEN name - 48 + 26
  ELSE -1

\* The global mark of that name, with timestamp 0 when it was never set.
RECURSIVE mark_get_global(_, _)
mark_get_global(namedfm, name) ==
  IF namedfm = <<>>
    THEN [name |-> name, mark |-> DEFAULT_POS, fname |-> NULL, timestamp |-> 0,
          additional_data |-> NoAdditionalData]
  ELSE IF Head(namedfm).name = name THEN Head(namedfm)
  ELSE mark_get_global(Tail(namedfm), name)

NMARKS == 26

NoGlobalMarks == [i \in 0..(NMARKS - 1) |-> MissingPFSE]

\* A variant of MergeGlobalMark that differs from the code: the editor's
\* own mark is not looked at when the slot is empty.
MergeGlobalMark_slot_only(global_marks, namedfm, entry) ==
  [global_marks EXCEPT
     ![mark_global_index(entry.data.name)] = COMPARE_WITH_ENTRY(@, entry)]

\* case kSDItemGlobalMark of shada_read_when_writing for a mark A-Z: an
\* empty slot takes the record only when it is newer than the editor's mark.
MergeGlobalMark(global_marks, namedfm, entry) ==
  IF /\ global_marks[mark_global_index(entry.data.name)].data.type = kSDItemMissing
     /\ mark_get_global(namedfm, entry.data.name).timestamp >= entry.timestamp
    THEN global_marks
    ELSE [global_marks EXCEPT
            ![mark_global_index(entry.data.name)] = COMPARE_WITH_ENTRY(@, entry)]

EXTRA_MARKS == 10

ascii_isdigit(c) == c \in 48..57

\* A variant of replace_numbered_mark that differs from the code: the marks
\* moved keep their names.
replace_numbered_mark_keep_names(numbered_marks, idx, entry) ==
  [i \in 0..(EXTRA_MARKS - 1) |->
     IF i < idx THEN numbered_marks[i]
     ELSE IF i = idx THEN [entry EXCEPT !.data.data.name = 48 + idx]
     ELSE numbered_marks[i - 1]]

\* replace_numbered_mark: numbered_marks is indexed from 0 as in the code.
\* The marks of the slots idx..8 are renamed and moved one slot up, the
\* last one is dropped, entry is stored at idx under the name '0'+idx.
replace_numbered_mark(numbered_marks, idx, entry) ==
  [i \in 0..(EXTRA_MARKS - 1) |->
     IF i < idx THEN numbered_marks[i]
     ELSE IF i = idx THEN [entry EXCEPT !.data.data.name = 48 + idx]
     ELSE IF numbered_marks[i - 1].data.type = kSDItemGlobalMark
       THEN [numbered_marks[i - 1] EXCEPT !.data.data.name = 48 + i]
     ELSE numbered_marks[i - 1]]

\* The loop over wms->numbered_marks for a numbered mark of the file, from
\* slot i - 1 down: the index to insert at, -1 when the mark is a duplicate
\* or older than all ten.
RECURSIVE NumberedMarkScan(_, _, _)
NumberedMarkScan(numbered_marks, i, entry) ==
  IF i = 0 THEN 0
  ELSE IF numbered_marks[i - 1].data.type # kSDItemGlobalMark
    THEN NumberedMarkScan(numbered_marks, i - 1, entry)
  ELSE IF /\ numbered_marks[i - 1].data.timestamp = entry.timestamp
          /\ numbered_marks[i - 1].data.additional_data = NoAdditionalData
          /\ entry.additional_data = NoAdditionalData
          /\ marks_equal(numbered_marks[i - 1].data.data.mark, entry.data.mark)
          /\ numbered_marks[i - 1].data.data.fname = entry.data.fname
    THEN -1
  ELSE IF numbered_marks[i - 1].data.timestamp >= entry.timestamp
    THEN IF i < EXTRA_MARKS THEN i ELSE -1
  ELSE NumberedMarkScan(numbered_marks, i - 1, entry)

MergeNumberedMark(numbered_marks, idx, entry) ==
  IF idx >= 0 THEN replace_numbered_mark(numbered_marks, idx, PFSE(TRUE, entry))
  ELSE numbered_marks

\* One entry of the previous file handed to the merger (the switch of
\* shada_read_when_writing). ed is the editor's state, needed by hms_insert.
MergeEntry(w, entry, ed, io) ==
  CASE entry.type = kSDItemMissing -> w
    [] entry.type = kSDItemUnknown -> PassThrough(w, entry, io)
    [] entry.type = kSDItemSearchPattern ->
         IF entry.data.is_substitute_pattern
           THEN [w EXCEPT !.wms.sub_search_pattern = COMPARE_WITH_ENTRY(@, entry)]
           ELSE [w EXCEPT !.wms.search_pattern = COMPARE_WITH_ENTRY(@, entry)]
    [] entry.type = kSDItemSubString ->
         [w EXCEPT !.wms.replacement = COMPARE_WITH_ENTRY(@, entry)]
    [] entry.type = kSDItemHistoryEntry ->
         IF entry.data.histtype >= HIST_COUNT THEN PassThrough(w, entry, io)
         ELSE IF w.wms.hms[entry.data.histtype].hmll.size # 0
           THEN [w EXCEPT !.wms.hms[entry.data.histtype] =
                            hms_insert(@, ed.hist[entry.data.histtype], entry, TRUE, TRUE)]
         ELSE w
    [] entry.type = kSDItemRegister ->
         IF op_reg_index(entry.data.name) < 0 THEN PassThrough(w, entry, io)
         ELSE [w EXCEPT !.wms.registers =
                          RegPut(@, op_reg_index(entry.data.name),
                                 COMPARE_WITH_ENTRY(RegSlot(@, op_reg_index(entry.data.name)),
                                                    entry))]
    [] entry.type = kSDItemVariable ->
         IF entry.data.name \notin w.wms.dumped_variables
           THEN PassThrough(w, entry, io)
           ELSE w
    [] entry.type = kSDItemGlobalMark /\ ascii_isdigit(entry.data.name) ->
         [w EXCEPT !.wms.numbered_marks =
                     MergeNumberedMark(@, NumberedMarkScan(@, EXTRA_MARKS, entry), entry)]
    [] entry.type = kSDItemGlobalMark /\ ~ascii_isdigit(entry.data.name) ->
         IF mark_global_index(entry.data.name) < 0 THEN PassThrough(w, entry, io)
         ELSE [w EXCEPT !.wms.global_marks = MergeGlobalMark(@, ed.namedfm, entry)]
    [] entry.type = kSDItemChange ->
         IF shada_removable(ed, entry.data.fname) THEN w
         ELSE [w EXCEPT !.wms.file_marks = MergeChange(@, entry)]
    [] entry.type = kSDItemLocalMark ->
         IF shada_removable(ed, entry.data.fname) THEN w
         ELSE [w EXCEPT !.wms.file_marks = MergeLocalMark(@, entry, ed)]
    [] entry.type = kSDItemJump ->
         [w EXCEPT !.wms.jumps =
                     marklist_insert(@, JumpScan(@, Len(@), entry), PFSE(TRUE, entry))]

\* The loop of shada_read_when_writing from offset pos of the previous
\* file rd. ctx = [flags, max_kbyte, ed, io].
RECURSIVE shada_read_when_writing(_, _, _, _)
RECURSIVE MergeItem(_, _, _, _)
shada_read_when_writing_nothing(w, rd, pos, ctx) == w

shada_read_when_writing(w, rd, pos, ctx) ==
  MergeItem(w, rd, ctx, shada_read_next_item(rd, pos, ctx.flags, ctx.max_kbyte))

\* A variant of MergeItem that differs from the code: a malformed record
\* ends the merge.
MergeItem_malformed_ends(w, rd, ctx, r) ==
  CASE r.status \in {kSDReadStatusFinished, kSDReadStatusReadError,
                     kSDReadStatusMalformed} -> w
    [] r.status = kSDReadStatusNotShaDa -> [w EXCEPT !.srww_ret = kSDWriteReadNotShada]
    [] r.status = kSDReadStatusSuccess ->
         shada_read_when_writing(
           MergeEntry([w EXCEPT !.reads = Append(@, r.entry)], r.entry, ctx.ed, ctx.io),
           rd, r.pos, ctx)

MergeItem(w, rd, ctx, r) ==
  CASE r.status = kSDReadStatusFinished -> w
    [] r.status = kSDReadStatusNotShaDa -> [w EXCEPT !.srww_ret = kSDWriteReadNotShada]
    [] r.status = kSDReadStatusReadError -> w
    [] r.status = kSDReadStatusMalformed -> shada_read_when_writing(w, rd, r.pos, ctx)
    [] r.status = kSDReadStatusSuccess ->
         shada_read_when_writing(
           MergeEntry([w EXCEPT !.reads = Append(@, r.entry)], r.entry, ctx.ed, ctx.io),
           rd, r.pos, ctx)

\* ------------------------------------------------------------------------
\* shada_write
\* ------------------------------------------------------------------------
\* The options of the editor are opts = [max_kbyte_i ('s'), p_hi (the
\* number of history entries saved, no history type having a count of its
\* own), dump_global_vars ('!'), max_reg_lines ('<'), dump_global_marks
\* ('f'), num_marked_files ('''), dump_buflist ('%')]. The state of the
\* editor is ed = [now, hist, regs, search_pattern, sub_pattern,
\* replacement, vars, search_last_used, no_hlsearch].
MaxKbyteOf(opts) == IF opts.max_kbyte_i < 0 THEN 10 ELSE opts.max_kbyte_i

\* srni_flags of shada_write.
WriteFlags(opts) ==
  kSDReadUndisableableData \cup {kSDReadUnknown}
  \cup (IF opts.p_hi > 0 THEN {kSDItemHistoryEntry} ELSE {})
  \cup (IF opts.max_reg_lines # 0 THEN {kSDItemRegister} ELSE {})
  \cup (IF opts.dump_global_vars THEN {kSDItemVariable} ELSE {})
  \cup (IF opts.dump_global_marks THEN {kSDItemGlobalMark} ELSE {})
  \cup (IF opts.num_marked_files # 0 THEN {kSDItemLocalMark, kSDItemChange} ELSE {})

\* The Header record: generator, version, max_kbyte, pid, encoding.
HeaderEntry(max_kbyte, now) ==
  Entry(kSDItemHeader, now,
        [items |->
           <<[key |-> <<103, 101, 110, 101, 114, 97, 116, 111, 114>>,
              value |-> [type |-> "String", data |-> <<110, 118, 105, 109>>, integer |-> 0]],
             [key |-> <<118, 101, 114, 115, 105, 111, 110>>,
              value |-> [type |-> "String", data |-> <<78, 86, 73, 77>>, integer |-> 0]],
             [key |-> <<109, 97, 120, 95, 107, 98, 121, 116, 101>>,
              value |-> [type |-> "Integer", data |-> <<>>, integer |-> max_kbyte]],
             [key |-> <<112, 105, 100>>,
              value |-> [type |-> "Integer", data |-> <<>>, integer |-> 1]],
             [key |-> <<101, 110, 99, 111, 100, 105, 110, 103>>,
              value |-> [type |-> "String", data |-> <<117, 116, 102, 45, 56>>,
                         integer |-> 0]]>>],
        NoAdditionalData)

NoNumberedMarks == [i \in 0..(EXTRA_MARKS - 1) |-> MissingPFSE]

\* "Initialize global marks" of shada_write: the editor's numbered marks go
\* to the slots 0, 1, ... in the order of the iteration.
RECURSIVE InitializeNumberedMarks(_, _, _)
InitializeNumberedMarks(numbered_marks, marks, digit_mark_idx) ==
  IF digit_mark_idx = Len(marks) THEN numbered_marks
  ELSE InitializeNumberedMarks(
         replace_numbered_mark(numbered_marks, digit_mark_idx,
                               PFSE(FALSE, marks[digit_mark_idx + 1])),
         marks, digit_mark_idx + 1)

\* shada_init_jumps: the editor's jumps, not owned by the merger.
shada_init_jumps(editor_jumps) == [i \in DOMAIN editor_jumps |-> PFSE(FALSE, editor_jumps[i])]

NoFiles == [f \in {} |-> NoFileMarks]

\* "Initialize buffers" of shada_write for one buffer: its local marks and
\* its change list, not owned by the merger, and the greatest of their
\* timestamps.
GreatestTimestamp(changelist) ==
  LET S == {0} \cup {changelist[i].timestamp : i \in DOMAIN changelist}
  IN CHOOSE m \in S : \A x \in S : x <= m

\* The local marks of a buffer in their slots.
RECURSIVE InitializeLocalMarks(_, _)
InitializeLocalMarks(marks, local_marks) ==
  IF local_marks = <<>> THEN marks
  ELSE InitializeLocalMarks(
         RegPut(marks, mark_local_index(Head(local_marks).data.name),
                PFSE(FALSE, Head(local_marks))),
         Tail(local_marks))

InitializeBuffer(file_marks, fname, local_marks, changelist) ==
  FileMarksPut(file_marks, fname,
               [FileMarksOf(file_marks, fname) EXCEPT
                  !.marks = InitializeLocalMarks(@, local_marks),
                  !.changes = [i \in DOMAIN changelist |-> PFSE(FALSE, changelist[i])],
                  !.greatest_timestamp =
                     Max(@, GreatestTimestamp(local_marks \o changelist))])

\* "Initialize global marks" of shada_write for the marks A-Z: the marks of
\* the editor go to their slots but for those in excluded files. The
\* numbered marks are taken by InitializeNumberedMarks.
RECURSIVE InitializeGlobalMarks(_, _, _)
InitializeGlobalMarks(global_marks, ed, marks) ==
  IF marks = <<>> THEN global_marks
  ELSE IF shada_removable(ed, Head(marks).fname) \/ ascii_isdigit(Head(marks).name)
    THEN InitializeGlobalMarks(global_marks, ed, Tail(marks))
  ELSE InitializeGlobalMarks(
         [global_marks EXCEPT
            ![mark_global_index(Head(marks).name)] =
               PFSE(FALSE, Entry(kSDItemGlobalMark, Head(marks).timestamp,
                                 [name |-> Head(marks).name, mark |-> Head(marks).mark,
                                  fname |-> Head(marks).fname],
                                 Head(marks).additional_data))],
         ed, Tail(marks))

\* ignore_buf: a buffer without a file name, an unlisted one or one in an
\* excluded file.
ignore_buf(ed, buf) == buf.fname = NULL \/ ~buf.listed \/ shada_removable(ed, buf.fname)

\* The buffers of the editor that count, in the order of FOR_ALL_BUFFERS.
KeptBuffers(ed) == SelectSeq(ed.buffers, LAMBDA buf : ~ignore_buf(ed, buf))

\* shada_get_buflist: the first max_bufs of them, all when max_bufs < 0.
shada_get_buflist(ed, max_bufs) ==
  Entry(kSDItemBufferList, ed.now,
        [buffers |->
           [i \in 1..(IF max_bufs < 0 \/ Len(KeptBuffers(ed)) < max_bufs
                       THEN Len(KeptBuffers(ed)) ELSE max_bufs) |->
              [pos |-> KeptBuffers(ed)[i].last_cursor, fname |-> KeptBuffers(ed)[i].fname,
               additional_data |-> KeptBuffers(ed)[i].additional_data]]],
        NoAdditionalData)

\* The jumps of the editor that shada_init_jumps takes: those in files that
\* are not excluded.
KeptJumps(ed) == SelectSeq(ed.jumps, LAMBDA e : ~shada_removable(ed, e.data.fname))

\* The numbered marks of the editor as entries, in the order of
\* mark_global_iter, without those in excluded files.
RECURSIVE KeptNumberedMarks(_, _)
KeptNumberedMarks(ed, marks) ==
  IF marks = <<>> THEN <<>>
  ELSE (IF ascii_isdigit(Head(marks).name) /\ ~shada_removable(ed, Head(marks).fname)
          THEN <<Entry(kSDItemGlobalMark, Head(marks).timestamp,
                       [name |-> Head(marks).name, mark |-> Head(marks).mark,
                        fname |-> Head(marks).fname],
                       Head(marks).additional_data)>>
          ELSE <<>>)
       \o KeptNumberedMarks(ed, Tail(marks))

\* "Initialize buffers" of shada_write.
RECURSIVE InitializeBuffers(_, _)
InitializeBuffers(file_marks, bufs) ==
  IF bufs = <<>> THEN file_marks
  ELSE InitializeBuffers(
         InitializeBuffer(file_marks, Head(bufs).fname, Head(bufs).marks,
                          Head(bufs).changelist),
         Tail(bufs))

\* The WriteMergerState after xcalloc and the initialisation of the
\* history mergers; merging says whether there is a previous file.
WriteInit(ed, opts, merging) ==
  [wms |-> [hms |-> [i \in 0..(HIST_COUNT - 1) |->
                       IF opts.p_hi > 0
                         THEN hms_init(i, opts.p_hi, merging, FALSE, ed.hist[i])
                         ELSE ZeroHms],
            global_marks |-> NoGlobalMarks, numbered_marks |-> NoNumberedMarks,
            registers |-> <<>>, jumps |-> <<>>,
            search_pattern |-> MissingPFSE, sub_search_pattern |-> MissingPFSE,
            replacement |-> MissingPFSE, dumped_variables |-> {},
            file_marks |-> NoFiles],
   packer |-> packer_buffer_for_file,
   ret |-> kSDWriteSuccessful, spe_ret |-> kSDWriteSuccessful,
   srww_ret |-> kSDWriteSuccessful, exit |-> FALSE,
   reads |-> <<>>, packs |-> <<>>]

\* The loop over the editor's global variables.
VariableDumped(w, name) ==
  IF w.spe_ret = kSDWriteFailed THEN [w EXCEPT !.ret = kSDWriteFailed, !.exit = TRUE]
  ELSE IF w.spe_ret = kSDWriteSuccessful
    THEN [w EXCEPT !.wms.dumped_variables = @ \cup {name}]
  ELSE w

RECURSIVE DumpVariables(_, _, _)
DumpVariables(w, vs, ctx) ==
  IF vs = <<>> \/ w.exit THEN w
  ELSE IF Head(vs).value.v_type \in {"VAR_FUNC", "VAR_PARTIAL"}
    THEN DumpVariables(w, Tail(vs), ctx)
  ELSE DumpVariables(
         VariableDumped(
           WritePack(w, Entry(kSDItemVariable, ctx.ed.now, Head(vs), NoAdditionalData),
                     ctx.max_kbyte, ctx.io),
           Head(vs).name),
         Tail(vs), ctx)

\* The editor's jumps, patterns, replacement string, global marks,
\* registers and buffers put into the merger state.
WriteSnapshot(w, ed, opts) ==
  [w EXCEPT
     !.wms.search_pattern =
        IF opts.p_hi > 0
          THEN add_search_pattern(ed.search_pattern, FALSE, ed.search_last_used,
                                  ~ed.no_hlsearch)
          ELSE @,
     !.wms.sub_search_pattern =
        IF opts.p_hi > 0
          THEN add_search_pattern(ed.sub_pattern, TRUE, ed.search_last_used,
                                  ~ed.no_hlsearch)
          ELSE @,
     !.wms.replacement = IF opts.p_hi > 0 THEN ReplacementEntry(ed.replacement) ELSE @,
     !.wms.jumps = IF opts.num_marked_files > 0 THEN shada_init_jumps(KeptJumps(ed)) ELSE @,
     !.wms.global_marks =
        IF opts.dump_global_marks THEN InitializeGlobalMarks(@, ed, ed.namedfm) ELSE @,
     !.wms.numbered_marks =
        IF opts.dump_global_marks
          THEN InitializeNumberedMarks(@, KeptNumberedMarks(ed, ed.namedfm), 0)
          ELSE @,
     !.wms.registers =
        IF opts.max_reg_lines # 0
          THEN shada_initialize_registers(@, ed.regs, opts.max_reg_lines)
          ELSE @,
     !.wms.file_marks =
        IF opts.num_marked_files > 0 THEN InitializeBuffers(@, KeptBuffers(ed)) ELSE @]

\* Packing a list of entries with the size limit, up to the first failure
\* (PACK_WMS_ARRAY, PACK_WMS_ENTRY, HMS_ITER).
RECURSIVE PackAll(_, _, _)
RECURSIVE PackAllOf(_, _, _)
PackAll(w, entries, ctx) ==
  IF entries = <<>> THEN w
  ELSE PackAllOf(WritePack(w, Head(entries), ctx.max_kbyte, ctx.io), Tail(entries), ctx)

PackAllOf(w, rest, ctx) ==
  IF w.spe_ret = kSDWriteFailed THEN [w EXCEPT !.ret = kSDWriteFailed, !.exit = TRUE]
  ELSE PackAll(w, rest, ctx)

RECURSIVE RegistersFrom(_, _)
RegistersFrom(registers, idx) ==
  IF DOMAIN registers = {} \/ idx > 36 THEN <<>>
  ELSE (IF RegSlot(registers, idx).data.type # kSDItemMissing
          THEN <<registers[idx].data>> ELSE <<>>)
       \o RegistersFrom(registers, idx + 1)

RECURSIVE DataOf(_)
DataOf(pfses) == IF pfses = <<>> THEN <<>> ELSE <<Head(pfses).data>> \o DataOf(Tail(pfses))

\* The entries of an array of slots that are occupied (PACK_WMS_ARRAY).
RECURSIVE SlotsFrom(_, _, _)
SlotsFrom(slots, idx, last) ==
  IF idx > last THEN <<>>
  ELSE (IF slots[idx].data.type # kSDItemMissing THEN <<slots[idx].data>> ELSE <<>>)
       \o SlotsFrom(slots, idx + 1, last)

\* A write that would put the jumps before the registers.
RestEntries_jumps_first(wms) ==
  SlotsFrom(wms.global_marks, 0, NMARKS - 1)
  \o SlotsFrom(wms.numbered_marks, 0, EXTRA_MARKS - 1)
  \o DataOf(wms.jumps)
  \o RegistersFrom(wms.registers, 0)
  \o (IF wms.search_pattern.data.type # kSDItemMissing THEN <<wms.search_pattern.data>> ELSE <<>>)
  \o (IF wms.sub_search_pattern.data.type # kSDItemMissing
        THEN <<wms.sub_search_pattern.data>> ELSE <<>>)
  \o (IF wms.replacement.data.type # kSDItemMissing THEN <<wms.replacement.data>> ELSE <<>>)

\* What is left in the slots of the merger state, in the order written.
RestEntries(wms) ==
  SlotsFrom(wms.global_marks, 0, NMARKS - 1)
  \o SlotsFrom(wms.numbered_marks, 0, EXTRA_MARKS - 1)
  \o RegistersFrom(wms.registers, 0)
  \o DataOf(wms.jumps)
  \o (IF wms.search_pattern.data.type # kSDItemMissing
        THEN <<wms.search_pattern.data>> ELSE <<>>)
  \o (IF wms.sub_search_pattern.data.type # kSDItemMissing
        THEN <<wms.sub_search_pattern.data>> ELSE <<>>)
  \o (IF wms.replacement.data.type # kSDItemMissing
        THEN <<wms.replacement.data>> ELSE <<>>)

\* The histories, one type after the other; a ret that is already
\* kSDWriteFailed ends the loop after the first history written.
HistoryDone(w) == IF w.ret = kSDWriteFailed THEN [w EXCEPT !.exit = TRUE] ELSE w

RECURSIVE WriteHistories(_, _, _)
WriteHistories(w, i, ctx) ==
  IF i = HIST_COUNT \/ w.exit THEN w
  ELSE IF ctx.p_hi <= 0 THEN WriteHistories(w, i + 1, ctx)
  ELSE WriteHistories(
         HistoryDone(
           PackAll(w,
                   DataOf(HMLL_FORALL(
                     hms_insert_whole_neovim_history(w.wms.hms[i], ctx.ed.hist[i]).hmll)),
                   ctx)),
         i + 1, ctx)

WriteRest(w, ctx) ==
  IF w.exit THEN w ELSE WriteHistories(w, 0, ctx)

MergeDone_ignore(w) == w

MergeDone(w) == IF w.srww_ret # kSDWriteSuccessful THEN [w EXCEPT !.ret = w.srww_ret] ELSE w

\* From the snapshot to the end: the merge of the previous file rd (NULL
\* when there is none) and the emission of the merger state.
WriteMerged(w, rd, ctx) ==
  IF w.exit THEN w
  ELSE IF rd = NULL THEN w
  ELSE MergeDone(shada_read_when_writing(w, [data |-> rd, err_at |-> ctx.io.err_at], 0, ctx))

\* "Update numbered marks": the cursor of the current window becomes '0.
CurrentPositionOf(w, ed, opts) ==
  IF w.exit THEN w
  ELSE IF /\ opts.dump_global_marks
          /\ ed.curbuf \in DOMAIN ed.buffers
          /\ ~ignore_buf(ed, ed.buffers[ed.curbuf])
          /\ ed.cursor.lnum # 0
    THEN [w EXCEPT
            !.wms.numbered_marks =
               replace_numbered_mark(
                 @, 0,
                 PFSE(FALSE, Entry(kSDItemGlobalMark, ed.now,
                                   [name |-> 48, mark |-> ed.cursor,
                                    fname |-> ed.buffers[ed.curbuf].fname],
                                   NoAdditionalData)))]
  ELSE w

WriteSlots(w, ctx) == IF w.exit THEN w ELSE PackAll(w, RestEntries(w.wms), ctx)

\* qsort with compare_file_marks: the files by greatest_timestamp, the
\* newest first; among files with equal timestamps the order is the one
\* qsort happens to produce, given by the positions in qsort.
QsortRank(qsort, fname) ==
  IF \E i \in DOMAIN qsort : qsort[i] = fname
    THEN CHOOSE i \in DOMAIN qsort : qsort[i] = fname
    ELSE Len(qsort) + 1

FileBefore(file_marks, qsort, f, g) ==
  \/ file_marks[f].greatest_timestamp > file_marks[g].greatest_timestamp
  \/ /\ file_marks[f].greatest_timestamp = file_marks[g].greatest_timestamp
     /\ QsortRank(qsort, f) < QsortRank(qsort, g)

FirstFile(file_marks, qsort, files) ==
  CHOOSE f \in files : \A g \in files \ {f} : ~FileBefore(file_marks, qsort, g, f)

RECURSIVE SortedFiles(_, _, _)
SortedFiles(file_marks, qsort, files) ==
  IF files = {} THEN <<>>
  ELSE <<FirstFile(file_marks, qsort, files)>>
       \o SortedFiles(file_marks, qsort, files \ {FirstFile(file_marks, qsort, files)})

\* The local marks in their slots and the changes of one file, in the order
\* written.
FileMarksEntries(filemarks) ==
  SlotsFrom([i \in 0..28 |-> RegSlot(filemarks.marks, i)], 0, 28)
  \o DataOf(filemarks.changes)

\* The loop over the first num_marked_files files: the marks and changes
\* with the size limit, the marks with unknown names without it.
RECURSIVE WriteFileMarksOf(_, _, _, _)
WriteFileMarksOf(w, files, n, ctx) ==
  IF w.exit \/ n = 0 \/ files = <<>> THEN w
  ELSE WriteFileMarksOf(
         PackAllOf(PackAll(w, FileMarksEntries(w.wms.file_marks[Head(files)]), ctx),
                   w.wms.file_marks[Head(files)].additional_marks,
                   [ctx EXCEPT !.max_kbyte = 0]),
         Tail(files), n - 1, ctx)

WriteFileMarks(w, ctx) ==
  IF w.exit THEN w
  ELSE WriteFileMarksOf(w, SortedFiles(w.wms.file_marks, ctx.io.qsort,
                                       DOMAIN w.wms.file_marks),
                        ctx.num_marked_files, ctx)

\* "Write buffer list", after the header.
BufferListDone(w) ==
  IF w.spe_ret = kSDWriteFailed THEN [w EXCEPT !.ret = kSDWriteFailed, !.exit = TRUE] ELSE w

WriteBufferList(w, ed, opts, io) ==
  IF w.spe_ret = kSDWriteFailed THEN [w EXCEPT !.ret = kSDWriteFailed, !.exit = TRUE]
  ELSE IF opts.dump_buflist
    THEN BufferListDone(WritePack(w, shada_get_buflist(ed, opts.max_bufs), 0, io))
  ELSE w

WriteVariables(w, ed, opts, ctx) ==
  IF w.spe_ret = kSDWriteFailed THEN [w EXCEPT !.ret = kSDWriteFailed, !.exit = TRUE]
  ELSE IF opts.dump_global_vars THEN DumpVariables(w, ed.vars, ctx)
  ELSE w

WriteSnapshotOf(w, ed, opts) == IF w.exit THEN w ELSE WriteSnapshot(w, ed, opts)

WriteCtx(ed, opts, io) ==
  [flags |-> WriteFlags(opts), max_kbyte |-> MaxKbyteOf(opts), p_hi |-> opts.p_hi,
   num_marked_files |-> opts.num_marked_files, ed |-> ed, io |-> io]

\* shada_write_exit: the result and what the flush leaves in the file.
WriteExit(w, io) ==
  [ret |-> w.ret, file |-> packer_flush(w.packer, io), srww_ret |-> w.srww_ret,
   reads |-> w.reads, packs |-> w.packs]

\* shada_write(sd_writer, sd_reader): rd is the previous file's contents
\* or NULL.
shada_write(ed, opts, rd, io) ==
  IF MaxKbyteOf(opts) = 0
    THEN [ret |-> kSDWriteSuccessful, file |-> <<>>, srww_ret |-> kSDWriteSuccessful,
          reads |-> <<>>, packs |-> <<>>]
    ELSE WriteExit(
           WriteRest(
             WriteFileMarks(
               WriteSlots(
                 CurrentPositionOf(
                   WriteMerged(
                     WriteSnapshotOf(
                       WriteVariables(
                         WriteBufferList(
                           WritePack(WriteInit(ed, opts, rd # NULL),
                                     HeaderEntry(MaxKbyteOf(opts), ed.now), 0, io),
                           ed, opts, io),
                         ed, opts, WriteCtx(ed, opts, io)),
                       ed, opts),
                     rd, WriteCtx(ed, opts, io)),
                   ed, opts),
                 WriteCtx(ed, opts, io)),
               WriteCtx(ed, opts, io)),
             WriteCtx(ed, opts, io)),
           io)

\* ------------------------------------------------------------------------
\* shada_write_file and the files it works on
\* ------------------------------------------------------------------------
\* fs = [inodes, target, temps, src]: inodes is the contents of every file
\* ever created, target the inode the ShaDa file's name refers to (0: the
\* name does not exist), temps the same for the names .tmp.a to .tmp.z,
\* src a history variable: the records the ShaDa file was made of.
\* sess[s] is one call of shada_write_file or shada_read_file by editor s.
Letters == 97..122

NoWrite ==
  [ret |-> "none", file |-> <<>>, srww_ret |-> "none", reads |-> <<>>, packs |-> <<>>]

WantInfo == [want_info |-> TRUE, want_marks |-> FALSE, get_oldfiles |-> FALSE, force |-> FALSE]

Session(op, ed, opts, nomerge) ==
  [op |-> op, pc |-> "start", ed |-> ed, ed_start |-> ed, opts |-> opts,
   nomerge |-> nomerge, rflags |-> WantInfo,
   did_open_reader |-> FALSE, sd_reader |-> 0, tempname |-> 0, sd_writer |-> 0,
   sw |-> NoWrite, io |-> IoOk, prev |-> NULL, did_remove |-> FALSE,
   result |-> "none", killed_at |-> "none"]

\* The contents of the file a name refers to, NULL when there is none.
Contents(inode) == IF inode = 0 THEN NULL ELSE fs.inodes[inode]

\* file_open(&sd_reader, fname, kFileReadOnly): err is a system error other
\* than the file not existing. Without a file to merge with, the write
\* goes on as a write without merging.
WfOpenReader(s, err) ==
  /\ sess[s].op = "write" /\ sess[s].pc = "start"
  /\ err => (~sess[s].nomerge /\ fs.target # 0)
  /\ sess' = [sess EXCEPT
       ![s].prev = Contents(fs.target),
       ![s].did_open_reader = ~sess[s].nomerge /\ fs.target # 0 /\ ~err,
       ![s].sd_reader = IF ~sess[s].nomerge /\ fs.target # 0 /\ ~err THEN fs.target ELSE 0,
       ![s].nomerge = sess[s].nomerge \/ fs.target = 0 \/ err,
       ![s].tempname = IF ~sess[s].nomerge /\ fs.target # 0 /\ ~err THEN 97 ELSE 0,
       ![s].pc = IF ~sess[s].nomerge /\ fs.target # 0 /\ ~err
                   THEN "open_temp" ELSE "open_target"]
  /\ UNCHANGED <<fs, hmsVars, codecVars, wmsVars>>

\* A variant of WfOpenTemp that differs from the code: a name that exists
\* is opened and truncated.
WfOpenTemp_reuse(s, err) ==
  /\ sess[s].op = "write" /\ sess[s].pc = "open_temp"
  /\ ~err
  /\ IF fs.temps[sess[s].tempname] # 0
       THEN /\ fs' = [fs EXCEPT !.inodes[fs.temps[sess[s].tempname]] = <<>>]
            /\ sess' = [sess EXCEPT ![s].sd_writer = fs.temps[sess[s].tempname],
                                    ![s].pc = "write"]
       ELSE /\ fs' = [fs EXCEPT !.inodes = Append(@, <<>>),
                                !.temps[sess[s].tempname] = Len(fs.inodes) + 1]
            /\ sess' = [sess EXCEPT ![s].sd_writer = Len(fs.inodes) + 1,
                                    ![s].pc = "write"]
  /\ UNCHANGED <<hmsVars, codecVars, wmsVars>>

WfOpenTemp_in_place(s, err) ==
  /\ sess[s].op = "write" /\ sess[s].pc = "open_temp"
  /\ fs' = [fs EXCEPT !.inodes[fs.target] = <<>>]
  /\ sess' = [sess EXCEPT ![s].sd_writer = fs.target, ![s].pc = "write"]
  /\ UNCHANGED <<hmsVars, codecVars, wmsVars>>

\* shada_write_file_open: file_open(&sd_writer, tempname, kFileCreateOnly |
\* kFileNoSymlink): the next letter when the name exists, FAIL after
\* .tmp.z and on any other error err.
WfOpenTemp(s, err) ==
  /\ sess[s].op = "write" /\ sess[s].pc = "open_temp"
  /\ err => fs.temps[sess[s].tempname] = 0
  /\ IF fs.temps[sess[s].tempname] # 0
       THEN /\ sess' = [sess EXCEPT
                 ![s].tempname = IF @ = 122 THEN @ ELSE @ + 1,
                 ![s].pc = IF sess[s].tempname = 122 THEN "done" ELSE "open_temp",
                 ![s].result = IF sess[s].tempname = 122 THEN "FAIL" ELSE @]
            /\ fs' = fs
       ELSE IF err
         THEN /\ sess' = [sess EXCEPT ![s].pc = "done", ![s].result = "FAIL"]
              /\ fs' = fs
       ELSE /\ fs' = [fs EXCEPT !.inodes = Append(@, <<>>),
                                !.temps[sess[s].tempname] = Len(fs.inodes) + 1]
            /\ sess' = [sess EXCEPT ![s].sd_writer = Len(fs.inodes) + 1,
                                    ![s].pc = "write"]
  /\ UNCHANGED <<hmsVars, codecVars, wmsVars>>

\* shada_write_file_nomerge: file_open(&sd_writer, fname, kFileCreate |
\* kFileTruncate); err is a failure to create the directory or to open.
WfOpenTarget(s, err) ==
  /\ sess[s].op = "write" /\ sess[s].pc = "open_target"
  /\ IF err
       THEN /\ sess' = [sess EXCEPT ![s].pc = "done", ![s].result = "FAIL"]
            /\ fs' = fs
       ELSE IF fs.target # 0
         THEN /\ fs' = [fs EXCEPT !.inodes[fs.target] = <<>>]
              /\ sess' = [sess EXCEPT ![s].sd_writer = fs.target, ![s].pc = "write"]
       ELSE /\ fs' = [fs EXCEPT !.inodes = Append(@, <<>>), !.target = Len(fs.inodes) + 1]
            /\ sess' = [sess EXCEPT ![s].sd_writer = Len(fs.inodes) + 1,
                                    ![s].pc = "write"]
  /\ UNCHANGED <<hmsVars, codecVars, wmsVars>>

WfWriteOf_in_place(s, io, sw) ==
  /\ sess' = [sess EXCEPT ![s].sw = sw, ![s].io = io, ![s].pc = "written"]
  /\ fs' = [fs EXCEPT !.inodes[fs.target] = sw.file]

\* sw_ret = shada_write(&sd_writer, nomerge ? NULL : &sd_reader).
WfWriteOf(s, io, sw) ==
  /\ sess' = [sess EXCEPT ![s].sw = sw, ![s].io = io, ![s].pc = "written"]
  /\ fs' = [fs EXCEPT !.inodes[sess[s].sd_writer] = sw.file]

WfWrite(s, io) ==
  /\ sess[s].op = "write" /\ sess[s].pc = "write"
  /\ WfWriteOf(s, io,
               shada_write(sess[s].ed, sess[s].opts,
                           IF sess[s].nomerge THEN NULL ELSE Contents(sess[s].sd_reader),
                           io))
  /\ UNCHANGED <<hmsVars, codecVars, wmsVars>>

\* After shada_write: a write without merging is finished; a merging one
\* that succeeded renames the temporary file over the ShaDa file unless
\* that is missing or not writable, or the rename fails.
WfRename(s, writable, rename_ok) ==
  /\ sess[s].op = "write" /\ sess[s].pc = "written"
  /\ IF ~sess[s].nomerge /\ sess[s].sw.ret = kSDWriteSuccessful
        /\ fs.target # 0 /\ writable
        /\ rename_ok /\ fs.temps[sess[s].tempname] # 0
       THEN /\ fs' = [fs EXCEPT !.target = fs.temps[sess[s].tempname],
                                !.temps[sess[s].tempname] = 0]
            /\ sess' = [sess EXCEPT ![s].did_remove = TRUE, ![s].pc = "remove"]
       ELSE /\ fs' = fs
            /\ sess' = [sess EXCEPT ![s].pc = "done", ![s].result = "OK"]
  /\ UNCHANGED <<hmsVars, codecVars, wmsVars>>

\* A variant of WfRemove that differs from the code: every temporary file
\* is removed.
WfRemove_sweep(s) ==
  /\ sess[s].op = "write" /\ sess[s].pc = "remove"
  /\ fs' = [fs EXCEPT !.temps = [l \in Letters |-> 0]]
  /\ sess' = [sess EXCEPT ![s].pc = "done", ![s].result = "OK"]
  /\ UNCHANGED <<hmsVars, codecVars, wmsVars>>

\* os_remove(tempname) after the rename, then the return.
WfRemove(s) ==
  /\ sess[s].op = "write" /\ sess[s].pc = "remove"
  /\ fs' = [fs EXCEPT !.temps[sess[s].tempname] = 0]
  /\ sess' = [sess EXCEPT ![s].pc = "done", ![s].result = "OK"]
  /\ UNCHANGED <<hmsVars, codecVars, wmsVars>>

\* The editor is killed in the middle of the call.
Kill(s) ==
  /\ sess[s].pc \notin {"start", "done", "killed"}
  /\ sess' = [sess EXCEPT ![s].pc = "killed", ![s].killed_at = sess[s].pc]
  /\ UNCHANGED <<fs, hmsVars, codecVars, wmsVars>>

\* ------------------------------------------------------------------------
\* shada_read
\* ------------------------------------------------------------------------
\* flags = [want_info, want_marks, get_oldfiles, force] are the
\* ShaDaReadFileFlags of the call.
ReadFlags(opts, flags) ==
  (IF flags.want_info
     THEN kSDReadUndisableableData \cup {kSDItemRegister, kSDItemGlobalMark}
          \cup (IF opts.p_hi # 0 THEN {kSDItemHistoryEntry} ELSE {})
          \cup (IF opts.dump_global_vars THEN {kSDItemVariable} ELSE {})
          \cup (IF opts.dump_buflist THEN {kSDItemBufferList} ELSE {})
     ELSE {})
  \cup (IF flags.want_marks /\ opts.num_marked_files > 0
          THEN {kSDItemLocalMark, kSDItemChange} ELSE {})
  \cup (IF flags.get_oldfiles THEN {kSDItemLocalMark} ELSE {})

\* The SearchPattern of the editor a record installs.
SearchPatternOfEntry(entry) ==
  [pat |-> entry.data.pat, magic |-> entry.data.magic, no_scs |-> ~entry.data.smartcase,
   off |-> [dir |-> IF entry.data.search_backward THEN 63 ELSE 47,
            line |-> entry.data.has_line_offset,
            end |-> entry.data.place_cursor_at_end,
            off |-> entry.data.offset],
   timestamp |-> entry.timestamp, additional_data |-> entry.additional_data]

ReadSearchPattern(ed, entry, force) ==
  IF ~force
     /\ (IF entry.data.is_substitute_pattern THEN ed.sub_pattern ELSE ed.search_pattern).pat
        # NULL
     /\ (IF entry.data.is_substitute_pattern THEN ed.sub_pattern ELSE ed.search_pattern)
        .timestamp >= entry.timestamp
    THEN ed
    ELSE [ed EXCEPT
            !.sub_pattern = IF entry.data.is_substitute_pattern
                              THEN SearchPatternOfEntry(entry) ELSE @,
            !.search_pattern = IF entry.data.is_substitute_pattern
                                 THEN @ ELSE SearchPatternOfEntry(entry),
            !.search_last_used = IF entry.data.is_last_used
                                   THEN ~entry.data.is_substitute_pattern ELSE @,
            !.no_hlsearch = IF entry.data.is_last_used
                              THEN ~entry.data.highlighted ELSE @]

ReadSubString(ed, entry, force) ==
  IF ~force /\ ed.replacement.sub # NULL /\ ed.replacement.timestamp >= entry.timestamp
    THEN ed
    ELSE [ed EXCEPT !.replacement = [sub |-> entry.data.sub, timestamp |-> entry.timestamp,
                                     additional_data |-> entry.additional_data]]

\* op_reg_get: the register of that name, empty when it was never set.
RECURSIVE op_reg_get(_, _)
op_reg_get(regs, name) ==
  IF regs = <<>>
    THEN [name |-> name, y_array |-> <<>>, y_type |-> kMTCharWise, y_width |-> 0,
          timestamp |-> 0, additional_data |-> NoAdditionalData, is_unnamed |-> FALSE]
  ELSE IF Head(regs).name = name THEN Head(regs)
  ELSE op_reg_get(Tail(regs), name)

\* op_reg_set: the registers stay in the order of their slots.
op_reg_set(regs, reg) ==
  SelectSeq(regs, LAMBDA r : op_reg_index(r.name) < op_reg_index(reg.name))
  \o <<reg>>
  \o SelectSeq(regs, LAMBDA r : op_reg_index(r.name) > op_reg_index(reg.name))

\* A variant of ReadRegister that differs from the code: a record as old as
\* the editor's register replaces it.
ReadRegister_replace_ties(ed, entry, force) ==
  IF entry.data.type \notin {kMTCharWise, kMTLineWise, kMTBlockWise} THEN ed
  ELSE IF ~force /\ (op_reg_index(entry.data.name) < 0
                     \/ op_reg_get(ed.regs, entry.data.name).timestamp > entry.timestamp)
    THEN ed
  ELSE IF op_reg_index(entry.data.name) < 0 THEN ed
  ELSE [ed EXCEPT !.regs =
          op_reg_set(@, [name |-> entry.data.name, y_array |-> entry.data.contents,
                         y_type |-> entry.data.type, y_width |-> entry.data.width,
                         timestamp |-> entry.timestamp,
                         additional_data |-> entry.additional_data,
                         is_unnamed |-> entry.data.is_unnamed])]

ReadRegister(ed, entry, force) ==
  IF entry.data.type \notin {kMTCharWise, kMTLineWise, kMTBlockWise} THEN ed
  ELSE IF ~force /\ (op_reg_index(entry.data.name) < 0
                     \/ op_reg_get(ed.regs, entry.data.name).timestamp >= entry.timestamp)
    THEN ed
  ELSE IF op_reg_index(entry.data.name) < 0 THEN ed
  ELSE [ed EXCEPT !.regs =
          op_reg_set(@, [name |-> entry.data.name, y_array |-> entry.data.contents,
                         y_type |-> entry.data.type, y_width |-> entry.data.width,
                         timestamp |-> entry.timestamp,
                         additional_data |-> entry.additional_data,
                         is_unnamed |-> entry.data.is_unnamed])]

\* mark_set_global(name, fm, update): with update the mark is set only
\* when fm is newer than the mark that is there.
mark_set_global(namedfm, fm, update) ==
  IF mark_global_index(fm.name) = -1 THEN namedfm
  ELSE IF update /\ fm.timestamp <= mark_get_global(namedfm, fm.name).timestamp
    THEN namedfm
  ELSE SelectSeq(namedfm,
                 LAMBDA m : mark_global_index(m.name) < mark_global_index(fm.name))
       \o <<fm>>
       \o SelectSeq(namedfm,
                    LAMBDA m : mark_global_index(m.name) > mark_global_index(fm.name))

ReadGlobalMark(ed, entry, force) ==
  [ed EXCEPT !.namedfm =
     mark_set_global(@, [name |-> entry.data.name, mark |-> entry.data.mark,
                         fname |-> entry.data.fname, timestamp |-> entry.timestamp,
                         additional_data |-> entry.additional_data],
                     ~force)]

\* var_set_global
var_set_global(vs, var) ==
  IF \E i \in 1..Len(vs) : vs[i].name = var.name
    THEN [i \in 1..Len(vs) |-> IF vs[i].name = var.name THEN var ELSE vs[i]]
    ELSE Append(vs, var)

\* One entry handed to the editor (the switch of shada_read); st = [ed, hms].
ReadEntry(st, entry, force) ==
  CASE entry.type \in {kSDItemUnknown, kSDItemHeader} -> st
    [] entry.type = kSDItemSearchPattern ->
         [st EXCEPT !.ed = ReadSearchPattern(@, entry, force)]
    [] entry.type = kSDItemSubString -> [st EXCEPT !.ed = ReadSubString(@, entry, force)]
    [] entry.type = kSDItemHistoryEntry ->
         IF entry.data.histtype >= HIST_COUNT THEN st
         ELSE [st EXCEPT !.hms[entry.data.histtype] =
                           hms_insert(@, st.ed.hist[entry.data.histtype], entry, TRUE, TRUE)]
    [] entry.type = kSDItemRegister -> [st EXCEPT !.ed = ReadRegister(@, entry, force)]
    [] entry.type = kSDItemVariable ->
         [st EXCEPT !.ed.vars = var_set_global(@, entry.data)]
    [] entry.type = kSDItemGlobalMark ->
         [st EXCEPT !.ed = ReadGlobalMark(@, entry, force)]

RECURSIVE ReadLoop(_, _, _, _)
RECURSIVE ReadItem(_, _, _, _)
ReadLoop(st, rd, pos, ctx) ==
  ReadItem(st, rd, ctx, shada_read_next_item(rd, pos, ctx.flags, 0))

\* A variant of ReadItem that differs from the code: an error drops the
\* histories merged so far.
ReadItem_drop_histories(st, rd, ctx, r) ==
  CASE r.status = kSDReadStatusFinished -> st
    [] r.status \in {kSDReadStatusNotShaDa, kSDReadStatusReadError} ->
         [st EXCEPT !.hms = [i \in 0..(HIST_COUNT - 1) |-> ZeroHms]]
    [] r.status = kSDReadStatusMalformed -> ReadLoop(st, rd, r.pos, ctx)
    [] r.status = kSDReadStatusSuccess ->
         ReadLoop(ReadEntry([st EXCEPT !.reads = Append(@, r.entry)], r.entry, ctx.force),
                  rd, r.pos, ctx)

ReadItem(st, rd, ctx, r) ==
  CASE r.status \in {kSDReadStatusFinished, kSDReadStatusNotShaDa, kSDReadStatusReadError}
         -> st
    [] r.status = kSDReadStatusMalformed -> ReadLoop(st, rd, r.pos, ctx)
    [] r.status = kSDReadStatusSuccess ->
         ReadLoop(ReadEntry([st EXCEPT !.reads = Append(@, r.entry)], r.entry, ctx.force),
                  rd, r.pos, ctx)

\* shada_read_main_cycle_end: the merged histories replace the editor's.
ReadHistories(st, ctx) ==
  IF kSDItemHistoryEntry \notin ctx.flags THEN st
  ELSE [st EXCEPT !.ed.hist =
          [i \in 0..(HIST_COUNT - 1) |->
             hms_to_he_array(hms_insert_whole_neovim_history(st.hms[i], st.ed.hist[i]))]]

ReadCtx(opts, flags) == [flags |-> ReadFlags(opts, flags), force |-> flags.force]

\* shada_read(sd_reader, flags): the state of the editor afterwards and,
\* as a history variable, the entries read.
shada_read(ed, opts, rd, flags) ==
  IF ReadFlags(opts, flags) = {} THEN [ed |-> ed, reads |-> <<>>]
  ELSE ReadHistories(
         ReadLoop([ed |-> ed, reads |-> <<>>,
                   hms |-> [i \in 0..(HIST_COUNT - 1) |->
                              IF opts.p_hi # 0
                                THEN hms_init(i, opts.p_hi, TRUE, TRUE, ed.hist[i])
                                ELSE ZeroHms]],
                  rd, 0, ReadCtx(opts, flags)),
         ReadCtx(opts, flags))

\* shada_read_file: file_open, shada_read, close. err is a system error on
\* opening, err_at the offset at which reading the file fails, -1 when it
\* does not.
RfReadOf(s, r, err_at) ==
  sess' = [sess EXCEPT ![s].pc = "done", ![s].result = "OK",
                       ![s].prev = Contents(fs.target),
                       ![s].ed = r.ed, ![s].io = [IoOk EXCEPT !.err_at = err_at],
                       ![s].sw = [NoWrite EXCEPT !.reads = r.reads]]

RfRead(s, err, err_at) ==
  /\ sess[s].op = "read" /\ sess[s].pc = "start"
  /\ err => fs.target # 0
  /\ (fs.target = 0 \/ err) => err_at = -1
  /\ IF fs.target = 0 \/ err
       THEN sess' = [sess EXCEPT ![s].pc = "done", ![s].result = "FAIL"]
       ELSE RfReadOf(s, shada_read(sess[s].ed, sess[s].opts,
                                   [data |-> Contents(fs.target), err_at |-> err_at],
                                   sess[s].rflags),
                     err_at)
  /\ UNCHANGED <<fs, hmsVars, codecVars, wmsVars>>

\* ------------------------------------------------------------------------
\* The files, editors and options of the model
\* ------------------------------------------------------------------------
MaxFileRecs == 2

MaxIoPoint == 2

\* A record as it lies in a file: type, timestamp, length, payload.
WireRecord(type, timestamp, payload) ==
  mpack_uint64(type) \o mpack_uint64(timestamp) \o mpack_uint64(Len(payload)) \o payload

WireEntry(entry) == WireRecord(entry.type, entry.timestamp, PackPayload(entry).bytes)

\* The records of the files that are read into an editor that has values
\* of its own: register a, the search pattern, the substitute pattern, the
\* replacement string and the global mark A, each at the time ts, and
\* register a with three lines.
ReadRecord(kind, ts) ==
  CASE kind = "reg" ->
         Entry(kSDItemRegister, ts,
               [name |-> 97, type |-> kMTCharWise, contents |-> <<(<<48 + ts>>)>>,
                is_unnamed |-> FALSE, width |-> 0], NoAdditionalData)
    [] kind = "reg3" ->
         Entry(kSDItemRegister, ts,
               [name |-> 97, type |-> kMTLineWise,
                contents |-> <<(<<120>>), <<121>>, <<122>> >>,
                is_unnamed |-> FALSE, width |-> 0], NoAdditionalData)
    [] kind = "pat" ->
         Entry(kSDItemSearchPattern, ts,
               [sd_default_values(kSDItemSearchPattern) EXCEPT !.pat = <<48 + ts>>],
               NoAdditionalData)
    [] kind = "sub" ->
         Entry(kSDItemSearchPattern, ts,
               [sd_default_values(kSDItemSearchPattern) EXCEPT
                  !.pat = <<48 + ts>>, !.is_substitute_pattern = TRUE,
                  !.is_last_used = FALSE],
               NoAdditionalData)
    [] kind = "rep" -> Entry(kSDItemSubString, ts, [sub |-> <<48 + ts>>], NoAdditionalData)
    [] kind = "mark" ->
         Entry(kSDItemGlobalMark, ts,
               [name |-> 65, mark |-> [lnum |-> 7, col |-> 4, coladd |-> 0],
                fname |-> <<103, 48 + ts>>], NoAdditionalData)

Item(entry) == [entry |-> entry, bytes |-> WireEntry(entry)]

\* The records previous files are made of. "junk" is a byte that starts no
\* record, "bad" a history record whose payload is not an array.
FileItems ==
  [hdr |-> [entry |-> HeaderEntry(10, 1), bytes |-> WireEntry(HeaderEntry(10, 1))],
   unk |-> [entry |-> Entry(kSDItemUnknown, 1, [type |-> 100, contents |-> <<5>>],
                            NoAdditionalData),
            bytes |-> WireRecord(100, 1, <<5>>)],
   unk0 |-> [entry |-> Entry(kSDItemUnknown, 1, [type |-> 100, contents |-> <<>>],
                             NoAdditionalData),
             bytes |-> WireRecord(100, 1, <<>>)],
   hist |-> [entry |-> HistoryEntry(HIST_CMD, <<102>>, 1, ArrExtra),
             bytes |-> WireEntry(HistoryEntry(HIST_CMD, <<102>>, 1, ArrExtra))],
   reg |-> [entry |-> Entry(kSDItemRegister, 2,
                            [name |-> 97, type |-> kMTCharWise, contents |-> <<(<<108>>)>>,
                             is_unnamed |-> FALSE, width |-> 0], MapExtra),
            bytes |-> WireEntry(Entry(kSDItemRegister, 2,
                            [name |-> 97, type |-> kMTCharWise, contents |-> <<(<<108>>)>>,
                             is_unnamed |-> FALSE, width |-> 0], MapExtra))],
   big |-> [entry |-> [BigRegisterEntry EXCEPT !.data.name = 98],
            bytes |-> WireEntry([BigRegisterEntry EXCEPT !.data.name = 98])],
   var |-> [entry |-> Entry(kSDItemVariable, 1,
                            [name |-> <<118>>,
                             value |-> [v_type |-> "VAR_NUMBER", val |-> <<>>, num |-> 5]],
                            NoAdditionalData),
            bytes |-> WireEntry(Entry(kSDItemVariable, 1,
                            [name |-> <<118>>,
                             value |-> [v_type |-> "VAR_NUMBER", val |-> <<>>, num |-> 5]],
                            NoAdditionalData))],
   bad |-> [entry |-> MissingEntry, bytes |-> WireRecord(kSDItemHistoryEntry, 1, <<5>>)],
   junk |-> [entry |-> MissingEntry, bytes |-> <<192>>],
   nltext |-> [entry |-> MissingEntry, bytes |-> <<NL, 97, 98>>],
   nlextra |-> [entry |-> MissingEntry, bytes |-> WireRecord(NL, 1, <<5, 5>>)],
   nlrec |-> [entry |-> MissingEntry, bytes |-> WireRecord(NL, 1, <<5>>)],
   reg1 |-> Item(ReadRecord("reg", 1)), reg2 |-> Item(ReadRecord("reg", 2)),
   reg3 |-> Item(ReadRecord("reg", 3)), long3 |-> Item(ReadRecord("reg3", 3)),
   pat1 |-> Item(ReadRecord("pat", 1)), pat2 |-> Item(ReadRecord("pat", 2)),
   pat3 |-> Item(ReadRecord("pat", 3)),
   sub1 |-> Item(ReadRecord("sub", 1)), sub2 |-> Item(ReadRecord("sub", 2)),
   sub3 |-> Item(ReadRecord("sub", 3)),
   rep1 |-> Item(ReadRecord("rep", 1)), rep2 |-> Item(ReadRecord("rep", 2)),
   rep3 |-> Item(ReadRecord("rep", 3)),
   mark1 |-> Item(ReadRecord("mark", 1)), mark2 |-> Item(ReadRecord("mark", 2)),
   mark3 |-> Item(ReadRecord("mark", 3))]

\* The items that begin with a line feed: "nltext" is a line feed followed
\* by the letters a and b, "nlextra" a record of type 10 whose payload is
\* two objects, "nlrec" a record of type 10 whose payload is one object.
NlItemNames == {"nltext", "nlextra", "nlrec"}

\* The items of the files that are read into an editor with values of its
\* own.
ReadItemNames ==
  {"reg1", "reg2", "reg3", "long3", "pat1", "pat2", "pat3", "sub1", "sub2", "sub3",
   "rep1", "rep2", "rep3", "mark1", "mark2", "mark3"}

FileItemNames == DOMAIN FileItems \ (NlItemNames \cup ReadItemNames)

RECURSIVE FileBytes(_)
FileBytes(src) ==
  IF src = <<>> THEN <<>> ELSE FileItems[Head(src)].bytes \o FileBytes(Tail(src))

SrcFiles == SeqsUpTo(FileItemNames, MaxFileRecs)

\* The states of the editor that writes or reads.
NoPattern ==
  [pat |-> NULL, magic |-> TRUE, no_scs |-> TRUE,
   off |-> [dir |-> 47, line |-> FALSE, end |-> FALSE, off |-> 0],
   timestamp |-> 0, additional_data |-> NoAdditionalData]

NoReplacement == [sub |-> NULL, timestamp |-> 0, additional_data |-> NoAdditionalData]

EmptyEditor ==
  [now |-> MaxTs + 1, hist |-> [i \in 0..(HIST_COUNT - 1) |-> <<>>], regs |-> <<>>,
   search_pattern |-> NoPattern, sub_pattern |-> NoPattern, replacement |-> NoReplacement,
   vars |-> <<>>, search_last_used |-> TRUE, no_hlsearch |-> TRUE, namedfm |-> <<>>,
   removable |-> {}, jumps |-> <<>>, buffers |-> <<>>, curbuf |-> 0,
   cursor |-> DEFAULT_POS]

\* The unknown key the editor keeps for its register a.
EdExtra == [nitems |-> 1, data |-> mpack_str(<<121>>) \o mpack_uint(2)]

\* An editor with one command-line history entry at time ts, register a
\* set at time ts, a search pattern and the variable v.
BusyEditor(ts) ==
  [EmptyEditor EXCEPT
     !.hist[HIST_CMD] = <<[hisstr |-> <<101>>, timestamp |-> ts, sep |-> 0,
                           additional_data |-> NoAdditionalData]>>,
     !.regs = <<[name |-> 97, y_array |-> <<(<<120>>)>>, y_type |-> kMTLineWise,
                 y_width |-> 0, timestamp |-> ts, additional_data |-> EdExtra,
                 is_unnamed |-> FALSE]>>,
     !.search_pattern = [NoPattern EXCEPT !.pat = <<112>>, !.timestamp = ts],
     !.vars = <<[name |-> <<118>>,
                 value |-> [v_type |-> "VAR_NUMBER", val |-> <<>>, num |-> 1]]>>]

\* An editor whose only state is register b with one very long line.
BigEditor ==
  [EmptyEditor EXCEPT
     !.regs = <<[name |-> 98, y_array |-> <<BigContents>>, y_type |-> kMTCharWise,
                 y_width |-> 0, timestamp |-> 1, additional_data |-> NoAdditionalData,
                 is_unnamed |-> FALSE]>>]

EditorStates == {EmptyEditor, BigEditor} \cup {BusyEditor(ts) : ts \in 1..MaxTs}

\* 'shada' with '0 and f0 and without %: marks and the buffer list are
\* neither written nor read.
Options(max_kbyte_i) ==
  [max_kbyte_i |-> max_kbyte_i, p_hi |-> MaxRing, dump_global_vars |-> TRUE,
   max_reg_lines |-> -1, dump_global_marks |-> FALSE, num_marked_files |-> 0,
   dump_buflist |-> FALSE, max_bufs |-> -1]

OptionSets == {Options(k) : k \in {-1, 0, 1}}

\* What the system may do during a shada_write.
IoChoices ==
  {IoOk, [IoOk EXCEPT !.final_ok = FALSE], [IoOk EXCEPT !.err_at = 0]}
  \cup {[IoOk EXCEPT !.fail_at = k, !.heal = h] : k \in 1..MaxIoPoint, h \in BOOLEAN}

\* What a temporary file left behind holds: the header of a write that
\* went no further.
LeftOver == FileBytes(<<"hdr">>)

\* The files at the start: the ShaDa file made of the records src (absent
\* when missing), ntemps temporary files left behind by earlier writes
\* under the names .tmp.a, .tmp.b, ...
InitFs(src, missing, ntemps) ==
  [inodes |-> [i \in 1..(ntemps + 1) |-> IF i = 1 THEN FileBytes(src) ELSE LeftOver],
   target |-> IF missing THEN 0 ELSE 1,
   temps |-> [l \in Letters |-> IF l - 97 < ntemps THEN l - 97 + 2 ELSE 0],
   src |-> src, ntemps |-> ntemps]

\* Whether the long record is among the records src.
HasBig(src) == \E i \in DOMAIN src : src[i] = "big"

\* The writes that are run: every write on the files shorter than the
\* longest; on the longest files the merging writes of the editors without
\* the long register, with an item size of 1 KiB where the file holds the
\* long record and with the default where it does not. An item size of
\* 1 KiB is run only where a long record is there to be dropped.
WriteRun(src, ed, opts, nomerge) ==
  /\ opts.max_kbyte_i = 1 => (ed = BigEditor \/ HasBig(src))
  /\ Len(src) = MaxFileRecs
     => /\ ~nomerge /\ ed # BigEditor
        /\ opts.max_kbyte_i = (IF HasBig(src) THEN 1 ELSE -1)

\* Where reading the file made of the records src may fail: nowhere (-1),
\* or at the start of one of its records.
ReadErrorOffsets(src) ==
  {-1} \cup {Len(FileBytes(SubSeq(src, 1, k))) : k \in 0..(Len(src) - 1)}

\* One editor writing or reading the ShaDa file.
InitFile ==
  /\ HmsIdle /\ codec = CodecIdle /\ WmsIdle
  /\ \/ \E src \in SrcFiles, missing \in BOOLEAN :
          /\ missing => src = <<>>
          /\ fs = InitFs(src, missing, 0)
     \/ \E src \in {<<>>, <<"hist">>}, ntemps \in {1, 26} : fs = InitFs(src, FALSE, ntemps)
  /\ \E ed \in EditorStates, opts \in OptionSets, op \in {"write", "read"},
        nomerge \in BOOLEAN :
       /\ op = "read" => ~nomerge
       /\ op = "write" => WriteRun(fs.src, ed, opts, nomerge)
       /\ sess = <<Session(op, ed, opts, nomerge)>>

NextFile ==
  \/ \E s \in DOMAIN sess, err \in BOOLEAN : WfOpenReader(s, err)
  \/ \E s \in DOMAIN sess, err \in BOOLEAN : WfOpenTemp(s, err)
  \/ \E s \in DOMAIN sess, err \in BOOLEAN : WfOpenTarget(s, err)
  \/ \E s \in DOMAIN sess, io \in IoChoices : WfWrite(s, io)
  \/ \E s \in DOMAIN sess, writable \in BOOLEAN, rename_ok \in BOOLEAN :
        WfRename(s, writable, rename_ok)
  \/ \E s \in DOMAIN sess : WfRemove(s)
  \/ \E s \in DOMAIN sess, err \in BOOLEAN, err_at \in ReadErrorOffsets(fs.src) :
        RfRead(s, err, err_at)
  \/ \E s \in DOMAIN sess : Kill(s)

SpecFile == InitFile /\ [][NextFile]_vars

\* ------------------------------------------------------------------------
\* Properties of shada_write_file
\* ------------------------------------------------------------------------
\* The bytes of all the records a shada_write handed to the packer.
RECURSIVE PackedBytes(_)
PackedBytes(packs) ==
  IF packs = <<>> THEN <<>>
  ELSE shada_pack_entry(Head(packs).entry, Head(packs).max_kbyte, TRUE).bytes
       \o PackedBytes(Tail(packs))

\* A write that merges with the previous file it opened.
MergingWrite(s) == sess[s].op = "write" /\ sess[s].did_open_reader

NoIoFailure(io) == io.fail_at = -1 /\ io.final_ok

\* C1: when the reader of a merging write reports kSDReadStatusNotShaDa, the
\* write still returns OK, the temporary file holds what a write merging
\* with the records before the offending one would have emitted, the
\* temporary file is not renamed and stays on disk, and the ShaDa file
\* keeps exactly its previous contents.
C1_NotShaDaKeepsTarget ==
  \A s \in DOMAIN sess :
    (MergingWrite(s) /\ sess[s].pc = "done"
     /\ sess[s].sw.srww_ret = kSDWriteReadNotShada)
    => /\ sess[s].result = "OK"
       /\ sess[s].sw.ret # kSDWriteSuccessful
       /\ ~sess[s].did_remove
       /\ fs.target = sess[s].sd_reader
       /\ Contents(fs.target) = sess[s].prev
       /\ fs.temps[sess[s].tempname] = sess[s].sd_writer
       /\ Contents(sess[s].sd_writer) = sess[s].sw.file
       /\ sess[s].io = IoOk =>
            \E k \in 0..(Len(fs.src) - 1) :
              sess[s].sw.file
                = shada_write(sess[s].ed, sess[s].opts,
                              FileBytes(SubSeq(fs.src, 1, k)), IoOk).file

C1_Witness ==
  \E s \in DOMAIN sess :
    /\ MergingWrite(s) /\ sess[s].pc = "done"
    /\ sess[s].sw.srww_ret = kSDWriteReadNotShada
    /\ fs.src = <<"hist", "junk">> /\ sess[s].ed = BusyEditor(1)
    /\ sess[s].io = IoOk
    /\ Len(sess[s].sw.packs) > 2
    /\ Contents(fs.temps[sess[s].tempname]) = PackedBytes(sess[s].sw.packs)
    /\ Contents(fs.target) = FileBytes(fs.src)

\* C2: in a merging write with an existing previous file, from the creation
\* of the temporary file until the rename, and when the editor is killed in
\* between, the ShaDa file holds its complete previous contents and the
\* temporary file this write created exists.
C2_TargetIntactBeforeRename ==
  \A s \in DOMAIN sess :
    (MergingWrite(s)
     /\ \/ sess[s].pc \in {"write", "written"}
        \/ sess[s].pc = "killed" /\ sess[s].killed_at \in {"write", "written"})
    => /\ fs.target # 0 /\ Contents(fs.target) = sess[s].prev
       /\ sess[s].sd_writer # 0 /\ sess[s].sd_writer # fs.target
       /\ fs.temps[sess[s].tempname] = sess[s].sd_writer

C2_Witness ==
  \E s \in DOMAIN sess :
    /\ MergingWrite(s) /\ sess[s].pc = "killed" /\ sess[s].killed_at = "written"
    /\ sess[s].sw.file # <<>> /\ sess[s].prev # <<>>
    /\ Contents(fs.target) = sess[s].prev
    /\ Contents(fs.temps[sess[s].tempname]) = sess[s].sw.file

\* The ShaDa file is as it was before the write (an absent file and an
\* empty one are taken for the same).
SameAsPrevious(s) ==
  \/ Contents(fs.target) = sess[s].prev
  \/ sess[s].prev = NULL /\ Contents(fs.target) = <<>>

IllFramed == [type |-> -1, timestamp |-> 0, payload |-> <<>>]

IsUint(t) == t.status = "ok" /\ t.kind = "uint"

RECURSIVE Frames(_, _)
RECURSIVE FrameType(_, _)
RECURSIVE FrameTimestamp(_, _, _)
RECURSIVE FrameLength(_, _, _, _)
Frames(b, i) ==
  IF i > Len(b) THEN <<>> ELSE FrameType(b, mpack_rtoken(b, i))

FrameType(b, t) ==
  IF ~IsUint(t) THEN <<IllFramed>>
  ELSE FrameTimestamp(b, t.val, mpack_rtoken(b, t.next))

FrameTimestamp(b, type, t) ==
  IF ~IsUint(t) THEN <<IllFramed>>
  ELSE FrameLength(b, type, t.val, mpack_rtoken(b, t.next))

FrameLength(b, type, timestamp, t) ==
  IF ~IsUint(t) \/ t.next + t.val - 1 > Len(b) THEN <<IllFramed>>
  ELSE <<[type |-> type, timestamp |-> timestamp,
          payload |-> SubSeq(b, t.next, t.next + t.val - 1)]>>
       \o Frames(b, t.next + t.val)

WellFramed(frames) == \A i \in DOMAIN frames : frames[i] # IllFramed

RECURSIVE UnknownFrames(_)
UnknownFrames(frames) ==
  IF frames = <<>> THEN <<>>
  ELSE IF Head(frames).type > SHADA_LAST_ENTRY
    THEN <<Head(frames)>> \o UnknownFrames(Tail(frames))
  ELSE UnknownFrames(Tail(frames))

\* A merging write that ran to its end with no failure of the system and
\* read the whole previous file.
CleanMerge(s) ==
  /\ MergingWrite(s) /\ sess[s].pc \in {"written", "remove", "done"}
  /\ sess[s].io = IoOk
  /\ sess[s].sw.srww_ret = kSDWriteSuccessful
  /\ MaxKbyteOf(sess[s].opts) # 0

\* C5: the unknown-type records of the previous file are, in a merging
\* write, each emitted once with the same type, timestamp, length field and
\* payload bytes, and the output is a well-framed record stream.
C5_UnknownRecordsKept ==
  \A s \in DOMAIN sess :
    CleanMerge(s)
    => /\ WellFramed(Frames(sess[s].sw.file, 1))
       /\ UnknownFrames(Frames(sess[s].sw.file, 1))
            = UnknownFrames(Frames(sess[s].prev, 1))

\* The same for previous files whose unknown records all have a payload.
C5_NonEmptyUnknownRecordsKept ==
  \A s \in DOMAIN sess :
    (CleanMerge(s) /\ \A i \in DOMAIN fs.src : fs.src[i] # "unk0")
    => /\ WellFramed(Frames(sess[s].sw.file, 1))
       /\ UnknownFrames(Frames(sess[s].sw.file, 1))
            = UnknownFrames(Frames(sess[s].prev, 1))

C5_UnknownKeptReached ==
  \E s \in DOMAIN sess :
    /\ CleanMerge(s) /\ fs.src = <<"unk", "hist">> /\ sess[s].ed = BusyEditor(1)
    /\ Len(UnknownFrames(Frames(sess[s].sw.file, 1))) = 1

\* The payload of entry is that of the same entry without unknown items,
\* with the count raised by their number and their bytes at its end.
ExtrasOf(p, p0, t, t0, ad) ==
  /\ t.status = "ok" /\ t.kind = t0.kind /\ t.kind \in {"array", "map"}
  /\ t.val = t0.val + ad.nitems
  /\ SubSeq(p, t.next, Len(p)) = SubSeq(p0, t0.next, Len(p0)) \o ad.data

ExtrasWellPlacedOf(p, p0, ad) ==
  ExtrasOf(p, p0, mpack_rtoken(p, 1), mpack_rtoken(p0, 1), ad)

ExtrasWellPlaced(entry) ==
  ExtrasWellPlacedOf(PackPayload(entry).bytes,
                     PackPayload([entry EXCEPT !.additional_data = NoAdditionalData]).bytes,
                     entry.additional_data)

\* The record comes whole, unknown items included, from the previous file
\* or from the editor.
FromOneSource(s, entry) ==
  \/ \E i \in DOMAIN sess[s].sw.reads : sess[s].sw.reads[i] = entry
  \/ /\ entry.type = kSDItemRegister
     /\ \E i \in DOMAIN sess[s].ed.regs : RegisterEntry(sess[s].ed.regs[i]) = entry

HasExtras(entry) ==
  /\ entry.type \notin {kSDItemUnknown, kSDItemHeader, kSDItemMissing}
  /\ entry.additional_data # NoAdditionalData

\* C6: every record written with k preserved unknown keys or trailing
\* elements declares the count of its known items plus k and ends with the
\* k items byte for byte, and it carries the unknown items of the very
\* record that won its slot.
C6_ExtrasFollowWinner ==
  \A s \in DOMAIN sess :
    sess[s].op = "write"
    => \A i \in DOMAIN sess[s].sw.packs :
         (sess[s].sw.packs[i].written /\ HasExtras(sess[s].sw.packs[i].entry))
         => /\ ExtrasWellPlaced(sess[s].sw.packs[i].entry)
            /\ FromOneSource(s, sess[s].sw.packs[i].entry)

\* Register a of the file, newer than the editor's, is written with its
\* unknown key, and a history entry of the file with its trailing element.
C6_Witness ==
  \E s \in DOMAIN sess :
    /\ CleanMerge(s) /\ fs.src = <<"reg", "hist">> /\ sess[s].ed = BusyEditor(1)
    /\ \E i \in DOMAIN sess[s].sw.packs :
         /\ sess[s].sw.packs[i].written
         /\ sess[s].sw.packs[i].entry = FileItems.reg.entry
    /\ \E i \in DOMAIN sess[s].sw.packs :
         /\ sess[s].sw.packs[i].written
         /\ sess[s].sw.packs[i].entry = FileItems.hist.entry
    /\ sess[s].sw.file = PackedBytes(sess[s].sw.packs)

\* The length of the payload of an entry.
PayloadLen(entry) == Len(PackPayload(entry).bytes)

WithinCap(entry, max_kbyte) ==
  max_kbyte = 0 \/ PayloadLen(entry) <= max_kbyte * KByte

\* C8 as stated: no record longer than the cap is read, by shada_read or by
\* the merge pass of a write, and none is written.
C8_OversizedSkipped ==
  \A s \in DOMAIN sess :
    /\ \A i \in DOMAIN sess[s].sw.reads :
         WithinCap(sess[s].sw.reads[i], MaxKbyteOf(sess[s].opts))
    /\ \A i \in DOMAIN sess[s].sw.packs :
         sess[s].sw.packs[i].written
         => WithinCap(sess[s].sw.packs[i].entry, MaxKbyteOf(sess[s].opts))

\* The entries the merge pass is to obtain from the records src: those of
\* a wanted type, decodable and within the cap.
RECURSIVE ExpectedReads(_, _, _)
ExpectedReads(src, flags, max_kbyte) ==
  IF src = <<>> THEN <<>>
  ELSE IF /\ FileItems[Head(src)].entry.type # kSDItemMissing
          /\ IF FileItems[Head(src)].entry.type = kSDItemUnknown
               THEN kSDReadUnknown \in flags
               ELSE FileItems[Head(src)].entry.type \in flags
          /\ WithinCap(FileItems[Head(src)].entry, max_kbyte)
    THEN <<FileItems[Head(src)].entry>> \o ExpectedReads(Tail(src), flags, max_kbyte)
  ELSE ExpectedReads(Tail(src), flags, max_kbyte)

\* C8 amended: the merge pass of a write skips every record longer than the
\* cap, advancing by exactly its length, so that it obtains exactly the
\* other records; and a write emits no record longer than the cap.
C8_OversizedSkippedByWrite ==
  \A s \in DOMAIN sess :
    sess[s].op = "write"
    => /\ \A i \in DOMAIN sess[s].sw.reads :
            WithinCap(sess[s].sw.reads[i], MaxKbyteOf(sess[s].opts))
       /\ \A i \in DOMAIN sess[s].sw.packs :
            sess[s].sw.packs[i].written
            => WithinCap(sess[s].sw.packs[i].entry, MaxKbyteOf(sess[s].opts))
       /\ (/\ sess[s].did_open_reader /\ sess[s].sw # NoWrite
           /\ sess[s].io.fail_at = -1 /\ sess[s].io.err_at = -1
           /\ sess[s].sw.srww_ret # kSDWriteReadNotShada
           /\ MaxKbyteOf(sess[s].opts) # 0)
          => sess[s].sw.reads
               = ExpectedReads(fs.src, WriteFlags(sess[s].opts),
                               MaxKbyteOf(sess[s].opts))

\* With a cap of 1 KiB the long register of the file is skipped and the
\* history entry after it is read.
C8_Witness ==
  \E s \in DOMAIN sess :
    /\ CleanMerge(s) /\ MaxKbyteOf(sess[s].opts) = 1
    /\ fs.src = <<"big", "hist">>
    /\ sess[s].sw.reads = <<FileItems.hist.entry>>
    /\ ~WithinCap(FileItems.big.entry, 1)

\* With the same cap the long register of the editor is not written.
C8_EditorRecordDropped ==
  \E s \in DOMAIN sess :
    /\ CleanMerge(s) /\ MaxKbyteOf(sess[s].opts) = 1 /\ sess[s].ed = BigEditor
    /\ \E i \in DOMAIN sess[s].sw.packs :
         /\ sess[s].sw.packs[i].entry.type = kSDItemRegister
         /\ ~sess[s].sw.packs[i].written

\* ------------------------------------------------------------------------
\* Two editors writing the same ShaDa file
\* ------------------------------------------------------------------------
\* An editor whose only state is the command-line history entry c of time ts.
HistEditor(c, ts) ==
  [EmptyEditor EXCEPT
     !.hist[HIST_CMD] = <<[hisstr |-> <<c>>, timestamp |-> ts, sep |-> 0,
                           additional_data |-> NoAdditionalData]>>]

InitConc ==
  /\ HmsIdle /\ codec = CodecIdle /\ WmsIdle
  /\ \E src \in SeqsUpTo({"hist", "reg", "unk"}, 1), ntemps \in {0, 1, 25} :
       /\ ntemps = 25 => src = <<>>
       /\ fs = InitFs(src, FALSE, ntemps)
  /\ \E tsa \in 1..MaxTs, tsb \in 1..MaxTs :
       sess = <<Session("write", HistEditor(97, tsa), Options(-1), FALSE),
                Session("write", HistEditor(98, tsb), Options(-1), FALSE)>>

\* The steps of the two merging writes, in any order, on a system that
\* fails nothing.
NextConc ==
  \/ \E s \in DOMAIN sess : WfOpenReader(s, FALSE)
  \/ \E s \in DOMAIN sess : WfOpenTemp(s, FALSE)
  \/ \E s \in DOMAIN sess : WfWrite(s, IoOk)
  \/ \E s \in DOMAIN sess : WfRename(s, TRUE, TRUE)
  \/ \E s \in DOMAIN sess : WfRemove(s)

SpecConc == InitConc /\ [][NextConc]_vars

\* The strings of the history records among frames.
HistoryStrings(frames) ==
  {DecodePayload(kSDItemHistoryEntry, frames[i].payload).data.string :
     i \in {j \in DOMAIN frames : frames[j].type = kSDItemHistoryEntry}}

TargetHistory == HistoryStrings(Frames(Contents(fs.target), 1))

BothFinished ==
  /\ Len(sess) = 2
  /\ \A s \in DOMAIN sess : sess[s].pc = "done" /\ sess[s].result = "OK"

\* The history of the file at the start and of both editors fits the
\* history capacity.
AllFits == Cardinality(HistoryStrings(Frames(FileBytes(fs.src), 1)) \cup {<<97>>, <<98>>})
             <= MaxRing

\* C4 as stated: once both merging writes have finished, whatever the
\* interleaving of their steps, the ShaDa file holds the history entries of
\* both editors.
C4_BothSessionsKept ==
  (BothFinished /\ AllFits) => {<<97>>, <<98>>} \subseteq TargetHistory

\* C4 amended: when one write opens the previous file only after the other
\* has renamed its output over it, and its own rename takes place, the file
\* holds the history entries of both editors.
C4_SecondMergesFirst ==
  \A a \in DOMAIN sess, b \in DOMAIN sess :
    (/\ BothFinished /\ AllFits /\ a # b
     /\ sess[a].did_remove /\ sess[b].did_remove
     /\ sess[b].sd_reader = sess[a].sd_writer)
    => /\ fs.target = sess[b].sd_writer
       /\ {<<97>>, <<98>>} \subseteq TargetHistory

C4_Witness ==
  /\ BothFinished /\ AllFits
  /\ sess[1].did_remove /\ sess[2].did_remove
  /\ sess[2].sd_reader = sess[1].sd_writer
  /\ {<<97>>, <<98>>} \subseteq TargetHistory
  /\ fs.src = <<"reg">>

\* Overlapping writes: both have renamed, and the file lacks an entry.
C4_LostUpdate ==
  /\ BothFinished /\ AllFits
  /\ sess[1].did_remove /\ sess[2].did_remove
  /\ ~({<<97>>, <<98>>} \subseteq TargetHistory)

\* The first write's removal of its temporary name deletes the temporary
\* file of the second, whose rename then does not take place.
C4_TempRemovedByOther ==
  /\ BothFinished
  /\ \E s \in DOMAIN sess : sess[s].sw.ret = kSDWriteSuccessful /\ ~sess[s].did_remove

\* ------------------------------------------------------------------------
\* The history ring on its own
\* ------------------------------------------------------------------------
\* One more string and one more timestamp than the largest ring has room for.
RingStrings == {<<96 + i>> : i \in 1..(MaxRing + 1)}

RingEntries ==
  {HistoryEntry(HIST_CMD, str, ts, NoAdditionalData) :
     str \in RingStrings, ts \in 1..(MaxRing + 1)}

\* A merger over an empty editor history; hms_log.seq is a history
\* variable, the entries inserted so far.
InitRing ==
  /\ hist = <<>>
  /\ \E size \in 1..MaxRing : hms_p = hms_init(HIST_CMD, size, TRUE, FALSE, <<>>)
  /\ hms_phase = "ring"
  /\ hms_log = [seq |-> <<>>]
  /\ codec = CodecIdle
  /\ FileIdle
  /\ WmsIdle

\* hms_insert(hms_p, entry, true, true)
RingInsert(entry) ==
  /\ hms_phase = "ring"
  /\ Len(hms_log.seq) <= MaxRing
  /\ hms_p' = hms_insert(hms_p, hist, entry, TRUE, TRUE)
  /\ hms_log' = [seq |-> Append(hms_log.seq, entry)]
  /\ UNCHANGED <<hist, hms_phase, codecVars, fileVars, wmsVars>>

NextRing == \E entry \in RingEntries : RingInsert(entry)

SpecRing == InitRing /\ [][NextRing]_vars

\* The entries of the ring from first to last.
RECURSIVE NodeData(_)
NodeData(nodes) ==
  IF nodes = <<>> THEN <<>> ELSE <<Head(nodes).data>> \o NodeData(Tail(nodes))

RingData == NodeData(HMLL_FORALL(hms_p.hmll))

\* Distinct strings inserted with strictly ascending timestamps.
AscendingDistinct(seq) ==
  \A i, j \in DOMAIN seq :
    i < j => /\ seq[i].timestamp < seq[j].timestamp
             /\ HistKey(seq[i]) # HistKey(seq[j])

\* C11: a ring of capacity N never holds more than N entries, and once N or
\* more distinct strings have been inserted with strictly ascending
\* timestamps it holds exactly the N newest of them, oldest first.
C11_RingHoldsNewest ==
  /\ hms_p.hmll.num_entries <= hms_p.hmll.size
  /\ Len(RingData) = hms_p.hmll.num_entries
  /\ ~hms_p.hmll.assert_failed
  /\ (AscendingDistinct(hms_log.seq) /\ Len(hms_log.seq) >= hms_p.hmll.size)
     => RingData = SubSeq(hms_log.seq, Len(hms_log.seq) - hms_p.hmll.size + 1,
                          Len(hms_log.seq))

\* Three entries went into a ring of two.
C11_Witness ==
  /\ hms_phase = "ring"
  /\ hms_p.hmll.size = 2 /\ Len(hms_log.seq) = 3
  /\ AscendingDistinct(hms_log.seq)
  /\ RingData = Tail(hms_log.seq)

\* ------------------------------------------------------------------------
\* The history merger of shada_read
\* ------------------------------------------------------------------------
\* The editor holds the strings a and b, the file the strings b and c; one
\* timestamp more than MaxTs, so that an entry can lie between two others.
ReadTimestamps == 1..(MaxTs + 1)

ReadEditorHistories ==
  {h \in SeqsUpTo([hisstr : {<<97>>, <<98>>}, timestamp : ReadTimestamps, sep : {0},
                   additional_data : {NoAdditionalData}], MaxHist) :
     \A i, j \in 1..Len(h) : i # j => h[i].hisstr # h[j].hisstr}

ReadFileHistEntries ==
  {HistoryEntry(HIST_CMD, str, ts, FileExtra) :
     str \in {<<98>>, <<99>>}, ts \in ReadTimestamps}

\* The index in hist of the editor's entry the merger will insert next.
NextEditorEntry(h, editor_hist) ==
  IF h.last_hist_entry.type = kSDItemMissing THEN Len(editor_hist) + 1
  ELSE IF h.iter = 0 THEN Len(editor_hist)
  ELSE h.iter - 1

\* Whether the strings of the editor's entries older than timestamp are in
\* the ring.
OlderEditorEntriesIn(hmll, editor_hist, timestamp) ==
  \A i \in DOMAIN editor_hist :
    editor_hist[i].timestamp < timestamp
      => editor_hist[i].hisstr \in DOMAIN hmll.contained_entries

\* hms_init(&hms[i], i, p_hi, true, true). hms_log is a history variable:
\* the file's records inserted, the indices of the editor's entries
\* inserted, whether each file record found the older editor entries in
\* the ring, and the history installed at the end.
InitReadHist ==
  /\ hist \in ReadEditorHistories
  /\ \E p_hi \in 1..(MaxRing + 1) : hms_p = hms_init(HIST_CMD, p_hi, TRUE, TRUE, hist)
  /\ hms_phase = "read"
  /\ hms_log = [file |-> <<>>, ed_calls |-> <<>>, older_in |-> TRUE, he_array |-> <<>>]
  /\ codec = CodecIdle
  /\ FileIdle
  /\ WmsIdle

\* case kSDItemHistoryEntry of shada_read: hms_insert(hms, cur_entry, true,
\* true).
ReadHistInsert(entry) ==
  /\ hms_phase = "read"
  /\ Len(hms_log.file) < MaxFileInserts
  /\ hms_p' = hms_insert(hms_p, hist, entry, TRUE, TRUE)
  /\ hms_log' =
       [hms_log EXCEPT
          !.file = Append(@, entry),
          !.ed_calls = @ \o [k \in 1..(NextEditorEntry(hms_p', hist)
                                        - NextEditorEntry(hms_p, hist))
                               |-> NextEditorEntry(hms_p, hist) + k - 1],
          !.older_in = @ /\ OlderEditorEntriesIn(
                              hms_drain(hms_p, hist, entry.timestamp).hmll,
                              hist, entry.timestamp)]
  /\ UNCHANGED <<hist, hms_phase, codecVars, fileVars, wmsVars>>

\* shada_read_main_cycle_end, when the editor's history is exhausted.
ReadHistEnd ==
  /\ hms_phase = "read"
  /\ hms_phase' = IF hms_p.last_hist_entry.type # kSDItemMissing THEN "final"
                  ELSE "install"
  /\ UNCHANGED <<hms_p, hist, hms_log, codecVars, fileVars, wmsVars>>

\* One iteration of the loop of hms_insert_whole_neovim_history.
ReadHistFinalStep ==
  /\ hms_phase = "final"
  /\ hms_p' = hms_advance(hms_insert_last(hms_p), hist, hms_insert_last(hms_p))
  /\ hms_phase' = IF hms_p.iter = 0 THEN "install" ELSE "final"
  /\ hms_log' = [hms_log EXCEPT !.ed_calls = Append(@, NextEditorEntry(hms_p, hist))]
  /\ UNCHANGED <<hist, codecVars, fileVars, wmsVars>>

\* clr_history and hms_to_he_array.
ReadHistInstall ==
  /\ hms_phase = "install"
  /\ hms_phase' = "done"
  /\ hms_log' = [hms_log EXCEPT !.he_array = hms_to_he_array(hms_p)]
  /\ UNCHANGED <<hms_p, hist, codecVars, fileVars, wmsVars>>

NextReadHist ==
  \/ \E entry \in ReadFileHistEntries : ReadHistInsert(entry)
  \/ ReadHistEnd
  \/ ReadHistFinalStep
  \/ ReadHistInstall

SpecReadHist == InitReadHist /\ [][NextReadHist]_vars

Ascending(h) == \A i, j \in DOMAIN h : i < j => h[i].timestamp <= h[j].timestamp

\* The (string, timestamp) pairs of the file's records and of the editor's
\* entries.
ReadUnion ==
  {<<hms_log.file[i].data.string, hms_log.file[i].timestamp>> : i \in DOMAIN hms_log.file}
  \cup {<<hist[i].hisstr, hist[i].timestamp>> : i \in DOMAIN hist}

\* Of each string the newest: a history holds no string twice.
NewestOf(pairs) == {p \in pairs : \A q \in pairs : q[1] = p[1] => q[2] <= p[2]}

HistoryCapSuffices ==
  hms_p.hmll.size >= Cardinality({p[1] : p \in ReadUnion})

\* C12: on read, with the editor's history ascending and the cap at least
\* the number of distinct strings, the installed history is the union of the
\* file's and the editor's entries (of each string the newest), oldest
\* first; every editor entry older than a file record is in the ring when
\* that record is inserted, and every editor entry is inserted exactly once,
\* the remaining ones at finalisation.
C12_ReadMergesByTimestamp ==
  (hms_phase \in {"read", "final", "install", "done"} /\ "he_array" \in DOMAIN hms_log
   /\ Ascending(hist) /\ HistoryCapSuffices)
  => /\ hms_log.older_in
     /\ \A i, j \in DOMAIN hms_log.ed_calls : i < j => hms_log.ed_calls[i] < hms_log.ed_calls[j]
     /\ hms_phase \in {"install", "done"}
          => hms_log.ed_calls = [i \in 1..Len(hist) |-> i]
     /\ hms_phase = "done"
          => /\ Ascending(hms_log.he_array)
             /\ {<<hms_log.he_array[i].hisstr, hms_log.he_array[i].timestamp>> :
                   i \in DOMAIN hms_log.he_array} = NewestOf(ReadUnion)
             /\ Len(hms_log.he_array) = Cardinality(NewestOf(ReadUnion))

\* The file holds c@1 and b@3, the editor a@2: the history installed is
\* c, a, b.
C12_Witness ==
  /\ hms_phase = "done" /\ "he_array" \in DOMAIN hms_log
  /\ Len(hist) = 1 /\ hist[1].hisstr = <<97>> /\ hist[1].timestamp = 2
  /\ Len(hms_log.file) = 2
  /\ hms_log.file[1].data.string = <<99>> /\ hms_log.file[1].timestamp = 1
  /\ hms_log.file[2].data.string = <<98>> /\ hms_log.file[2].timestamp = 3
  /\ Len(hms_log.he_array) = 3
  /\ [i \in 1..3 |-> hms_log.he_array[i].hisstr] = <<(<<99>>), (<<97>>), (<<98>>)>>

\* ------------------------------------------------------------------------
\* The numbered marks of a write
\* ------------------------------------------------------------------------
\* A global mark of the file fname at line lnum.
GlobalMark(name, fname, lnum, timestamp, ad) ==
  Entry(kSDItemGlobalMark, timestamp,
        [name |-> name, mark |-> [lnum |-> lnum, col |-> 0, coladd |-> 0],
         fname |-> fname], ad)

\* The editor's numbered marks '0 .. : n marks in the file e, the first
\* newer of them set at time MaxTs, the others at time 1.
EditorNumberedMarks(n, newer) ==
  [i \in 1..n |-> GlobalMark(48 + i - 1, <<101>>, i,
                             IF i <= newer THEN MaxTs ELSE 1, NoAdditionalData)]

\* The numbered marks of a file; their names are '9 whatever slot they
\* end up in.
FileNumberedMarks ==
  {GlobalMark(57, fname, 1, ts, ad) :
     fname \in {<<101>>, <<102>>}, ts \in 1..(MaxTs + 1),
     ad \in {NoAdditionalData, MapExtra}}

\* The cursor when the write takes place.
CurrentPosition == GlobalMark(48, <<103>>, 1, MaxTs + 2, NoAdditionalData)

\* wms->numbered_marks before any mark is in it. log is a history
\* variable: the array before the last call of replace_numbered_mark, the
\* index and the entry of that call.
InitMarks ==
  /\ \E n \in {0, 1, EXTRA_MARKS - 1, EXTRA_MARKS}, newer \in {0, 1, EXTRA_MARKS} :
       /\ newer <= n
       /\ wms_p = [pc |-> "init", editor_marks |-> EditorNumberedMarks(n, newer),
                   numbered_marks |-> NoNumberedMarks,
                   log |-> [prev |-> NoNumberedMarks, idx |-> -1, entry |-> MissingPFSE,
                            nfile |-> 0]]
  /\ HmsIdle /\ codec = CodecIdle /\ FileIdle

MarksInitialize ==
  /\ wms_p.pc = "init"
  /\ wms_p' =
       [wms_p EXCEPT
          !.pc = "merge",
          !.numbered_marks = InitializeNumberedMarks(@, wms_p.editor_marks, 0),
          !.log = IF wms_p.editor_marks = <<>> THEN @
                  ELSE [@ EXCEPT
                          !.prev = InitializeNumberedMarks(
                                     wms_p.numbered_marks,
                                     SubSeq(wms_p.editor_marks, 1,
                                            Len(wms_p.editor_marks) - 1), 0),
                          !.idx = Len(wms_p.editor_marks) - 1,
                          !.entry = PFSE(FALSE,
                                         wms_p.editor_marks[Len(wms_p.editor_marks)])]]
  /\ UNCHANGED <<hmsVars, codecVars, fileVars>>

\* case kSDItemGlobalMark of shada_read_when_writing, for a numbered mark.
MarksMerge(entry) ==
  /\ wms_p.pc = "merge"
  /\ wms_p.log.nfile < MaxFileInserts
  /\ wms_p' =
       [wms_p EXCEPT
          !.numbered_marks =
             MergeEntry([wms |-> [numbered_marks |-> @]], entry, EmptyEditor, IoOk)
               .wms.numbered_marks,
          !.log = [prev |-> wms_p.numbered_marks,
                   idx |-> NumberedMarkScan(wms_p.numbered_marks, EXTRA_MARKS, entry),
                   entry |-> PFSE(TRUE, entry),
                   nfile |-> @.nfile + 1]]
  /\ UNCHANGED <<hmsVars, codecVars, fileVars>>

\* "Update numbered marks" of shada_write: the current position becomes '0.
MarksCurrentPosition ==
  /\ wms_p.pc = "merge"
  /\ wms_p' =
       [wms_p EXCEPT
          !.pc = "done",
          !.numbered_marks = replace_numbered_mark(@, 0, PFSE(FALSE, CurrentPosition)),
          !.log = [@ EXCEPT !.prev = wms_p.numbered_marks, !.idx = 0,
                            !.entry = PFSE(FALSE, CurrentPosition)]]
  /\ UNCHANGED <<hmsVars, codecVars, fileVars>>

NextMarks ==
  \/ MarksInitialize
  \/ \E entry \in FileNumberedMarks : MarksMerge(entry)
  \/ MarksCurrentPosition

SpecMarks == InitMarks /\ [][NextMarks]_vars

\* The same mark but for its name; an empty slot equals an empty slot.
SameMarkRenamed(a, b, name) ==
  IF b.data.type # kSDItemGlobalMark THEN a = b
  ELSE a = [b EXCEPT !.data.data.name = name]

\* C13: replace_numbered_mark at index idx drops the mark of slot 9, moves
\* the slots idx..8 to idx+1..9 and stores the new mark at idx; every
\* occupied slot i holds a mark named '0'+i, so an insertion at index 0 turns
\* the previous '0 into '1, ..., the previous '8 into '9.
C13_NumberedMarksRotate ==
  "numbered_marks" \in DOMAIN wms_p
  => /\ \A i \in 0..(EXTRA_MARKS - 1) :
          wms_p.numbered_marks[i].data.type = kSDItemGlobalMark
            => wms_p.numbered_marks[i].data.data.name = 48 + i
     /\ wms_p.log.idx >= 0
          => /\ SameMarkRenamed(wms_p.numbered_marks[wms_p.log.idx], wms_p.log.entry,
                                48 + wms_p.log.idx)
             /\ \A i \in 0..(EXTRA_MARKS - 1) :
                  /\ i < wms_p.log.idx => wms_p.numbered_marks[i] = wms_p.log.prev[i]
                  /\ i > wms_p.log.idx
                       => SameMarkRenamed(wms_p.numbered_marks[i], wms_p.log.prev[i - 1],
                                          48 + i)
     /\ wms_p.log.idx < 0 => wms_p.numbered_marks = wms_p.log.prev

\* A mark of the file, newer than the ten marks held, went to slot 0: the
\* previous '0 .. '8 are '1 .. '9 now.
C13_Witness ==
  /\ "numbered_marks" \in DOMAIN wms_p
  /\ wms_p.pc = "merge" /\ wms_p.log.nfile > 0 /\ wms_p.log.idx = 0
  /\ \A i \in 0..(EXTRA_MARKS - 1) :
       /\ wms_p.log.prev[i].data.type = kSDItemGlobalMark
       /\ wms_p.log.prev[i].data.timestamp < wms_p.log.entry.data.timestamp
  /\ wms_p.numbered_marks[0].data.data.fname = <<102>>
  /\ \A i \in 1..(EXTRA_MARKS - 1) :
       /\ wms_p.numbered_marks[i].data.data.name = 48 + i
       /\ wms_p.numbered_marks[i].data.data.mark = wms_p.log.prev[i - 1].data.data.mark
       /\ wms_p.log.prev[i - 1].data.data.name = 48 + i - 1

\* ------------------------------------------------------------------------
\* The jump list of a write
\* ------------------------------------------------------------------------
Jump(lnum, timestamp) ==
  Entry(kSDItemJump, timestamp,
        [name |-> 0, mark |-> [lnum |-> lnum, col |-> 0, coladd |-> 0],
         fname |-> <<102>>], NoAdditionalData)

\* The editor's jump list after cleanup_jumplist: oldest first, no position
\* twice.
EditorJumpLists ==
  {jl \in SeqsUpTo({Jump(lnum, ts) : lnum \in 1..2, ts \in 1..(MaxTs + 1)}, MaxHist) :
     \A i, j \in 1..Len(jl) :
       i < j => /\ jl[i].timestamp <= jl[j].timestamp
                /\ jl[i].data.mark # jl[j].data.mark}

FileJumps == {Jump(lnum, ts) : lnum \in 1..3, ts \in 1..(MaxTs + 1)}

\* log is a history variable: the list before the last Jump record of the
\* file was merged, and that record.
InitJumps ==
  /\ \E jl \in EditorJumpLists :
       wms_p = [pc |-> "init", editor_jumps |-> jl, jumps |-> <<>>,
                log |-> [prev |-> <<>>, entry |-> MissingEntry, nfile |-> 0]]
  /\ HmsIdle /\ codec = CodecIdle /\ FileIdle

JumpsInitialize ==
  /\ wms_p.pc = "init"
  /\ wms_p' = [wms_p EXCEPT !.pc = "merge", !.jumps = shada_init_jumps(wms_p.editor_jumps)]
  /\ UNCHANGED <<hmsVars, codecVars, fileVars>>

\* case kSDItemJump of shada_read_when_writing.
JumpsMerge(entry) ==
  /\ wms_p.pc = "merge"
  /\ wms_p.log.nfile < MaxFileInserts
  /\ wms_p' =
       [wms_p EXCEPT
          !.jumps = MergeEntry([wms |-> [jumps |-> @]], entry, EmptyEditor, IoOk).wms.jumps,
          !.log = [prev |-> wms_p.jumps, entry |-> entry, nfile |-> @.nfile + 1]]
  /\ UNCHANGED <<hmsVars, codecVars, fileVars>>

NextJumps ==
  \/ JumpsInitialize
  \/ \E entry \in FileJumps : JumpsMerge(entry)

SpecJumps == InitJumps /\ [][NextJumps]_vars

JumpMerged == "jumps" \in DOMAIN wms_p /\ wms_p.log.nfile > 0

SamePosition(a, b) ==
  /\ marks_equal(a.data.mark, b.data.mark)
  /\ a.data.fname = b.data.fname

\* The index in jumps of the nearest entry not newer than entry, 0 when
\* there is none; the nearest newer entry is the one after it.
OlderNeighbour(jumps, entry) ==
  LET S == {0} \cup {i \in DOMAIN jumps : jumps[i].data.timestamp <= entry.timestamp}
  IN CHOOSE m \in S : \A x \in S : x <= m

OlderNeighbourSame(jumps, entry) ==
  /\ OlderNeighbour(jumps, entry) > 0
  /\ SamePosition(jumps[OlderNeighbour(jumps, entry)].data, entry)

NewerNeighbourSame(jumps, entry) ==
  /\ OlderNeighbour(jumps, entry) < Len(jumps)
  /\ SamePosition(jumps[OlderNeighbour(jumps, entry) + 1].data, entry)

C14_NewerNeighbourKept ==
  /\ JumpMerged
  /\ NewerNeighbourSame(wms_p.log.prev, wms_p.log.entry)
  /\ ~OlderNeighbourSame(wms_p.log.prev, wms_p.log.entry)
  /\ Len(wms_p.jumps) = Len(wms_p.log.prev) + 1

\* ------------------------------------------------------------------------
\* Malformed records and errors while reading
\* ------------------------------------------------------------------------
\* The records src without the malformed ones.
WithoutMalformed(src) == SelectSeq(src, LAMBDA name : name # "bad")

\* The malformed records src begins with.
RECURSIVE LeadingMalformed(_)
LeadingMalformed(src) ==
  IF src = <<>> \/ Head(src) # "bad" THEN <<>>
  ELSE <<Head(src)>> \o LeadingMalformed(Tail(src))

SessionFlags(s) ==
  IF sess[s].op = "write" THEN WriteFlags(sess[s].opts)
  ELSE ReadFlags(sess[s].opts, sess[s].rflags)

SessionMaxKbyte(s) == IF sess[s].op = "write" THEN MaxKbyteOf(sess[s].opts) ELSE 0

\* The file begins with a malformed record, and the record after it would
\* not pass the check made of the first record of a file, to which it is
\* not subjected where it stands.
FirstRecordCheckEscaped(s) ==
  /\ LeadingMalformed(fs.src) # <<>>
  /\ shada_read_next_item([data |-> FileBytes(WithoutMalformed(fs.src)), err_at |-> -1],
                          0, SessionFlags(s), SessionMaxKbyte(s)).status
       = kSDReadStatusNotShaDa
  /\ shada_read_next_item([data |-> FileBytes(fs.src), err_at |-> -1],
                          Len(FileBytes(LeadingMalformed(fs.src))),
                          SessionFlags(s), SessionMaxKbyte(s)).status
       # kSDReadStatusNotShaDa

\* The session has read a file of records src that holds a malformed record,
\* and no read failed.
ReadMalformed(s) ==
  /\ sess[s].prev = FileBytes(fs.src)
  /\ \E i \in DOMAIN fs.src : fs.src[i] = "bad"
  /\ sess[s].io.err_at = -1
  /\ \/ sess[s].op = "read" /\ sess[s].pc = "done" /\ sess[s].result = "OK"
     \/ MergingWrite(s) /\ sess[s].pc \in {"written", "remove", "done"}
        /\ sess[s].sw # NoWrite

\* The outcome is that of the same call on the file without the malformed
\* records: the editor's state and the entries read (read), the merger's
\* result, the entries read and the output (write).
AsIfMalformedAbsent(s) ==
  IF sess[s].op = "read"
    THEN /\ sess[s].ed = shada_read(sess[s].ed_start, sess[s].opts,
                                    [data |-> FileBytes(WithoutMalformed(fs.src)),
                                     err_at |-> -1], sess[s].rflags).ed
         /\ sess[s].sw.reads = shada_read(sess[s].ed_start, sess[s].opts,
                                          [data |-> FileBytes(WithoutMalformed(fs.src)),
                                           err_at |-> -1], sess[s].rflags).reads
    ELSE sess[s].sw = shada_write(sess[s].ed, sess[s].opts,
                                  FileBytes(WithoutMalformed(fs.src)), sess[s].io)

\* C15 as stated: a Malformed record changes nothing on the read path and
\* on the write path, and the records after it are read and processed
\* exactly as if it were absent.
C15_MalformedAsIfAbsent ==
  \A s \in DOMAIN sess : ReadMalformed(s) => AsIfMalformedAbsent(s)

\* C15 amended: the same, except where the malformed record is the first of
\* the file and the record after it would fail the check of a first record.
C15_MalformedSkipped ==
  \A s \in DOMAIN sess :
    (ReadMalformed(s) /\ ~FirstRecordCheckEscaped(s)) => AsIfMalformedAbsent(s)

\* A history record after a malformed record was read and merged into the
\* output of a write.
C15_Witness ==
  \E s \in DOMAIN sess :
    /\ ReadMalformed(s) /\ ~FirstRecordCheckEscaped(s) /\ sess[s].op = "write"
    /\ fs.src = <<"bad", "hist">>
    /\ sess[s].sw.reads = <<FileItems["hist"].entry>>
    /\ sess[s].sw.ret = kSDWriteSuccessful
    /\ AsIfMalformedAbsent(s)

\* The unknown record after a malformed first record was accepted; as the
\* first record it would have ended the read.
C15_FirstRecordCheckEscaped ==
  \E s \in DOMAIN sess :
    /\ ReadMalformed(s) /\ FirstRecordCheckEscaped(s)
    /\ ~AsIfMalformedAbsent(s)

\* The offset of record k of the file made of the records src.
RecordOffset(src, k) == Len(FileBytes(SubSeq(src, 1, k - 1)))

\* Record k is where the read of session s fails: read from its offset,
\* with the file cut after it, it yields NotShaDa or ReadError.
FailsAtRecord(s, k) ==
  shada_read_next_item([data |-> FileBytes(SubSeq(fs.src, 1, k)),
                        err_at |-> sess[s].io.err_at],
                       RecordOffset(fs.src, k), SessionFlags(s), SessionMaxKbyte(s)).status
    \in {kSDReadStatusNotShaDa, kSDReadStatusReadError}

FirstFailingRecord(s) ==
  CHOOSE k \in 1..Len(fs.src) :
    FailsAtRecord(s, k) /\ \A j \in 1..(k - 1) : ~FailsAtRecord(s, j)

\* A shada_read that came upon a record that yields NotShaDa or ReadError.
ReadFailed(s) ==
  /\ sess[s].op = "read" /\ sess[s].pc = "done" /\ sess[s].result = "OK"
  /\ sess[s].prev = FileBytes(fs.src)
  /\ \E k \in 1..Len(fs.src) : FailsAtRecord(s, k)

\* The read of the records before record k, with no error.
ReadOfRecordsBefore(s, k) ==
  shada_read(sess[s].ed_start, sess[s].opts,
             [data |-> FileBytes(SubSeq(fs.src, 1, k - 1)), err_at |-> -1],
             sess[s].rflags)

HistStringsOf(h) == {h[i].hisstr : i \in DOMAIN h}

\* C16: on read, when record k yields NotShaDa or ReadError, the editor is
\* left as by the records 1..k-1 alone, and the history merge is finalised:
\* the history holds the file's entries read before the error and the
\* editor's own.
C16_ReadStopsAtError ==
  \A s \in DOMAIN sess :
    ReadFailed(s)
    => /\ sess[s].ed = ReadOfRecordsBefore(s, FirstFailingRecord(s)).ed
       /\ sess[s].sw.reads = ReadOfRecordsBefore(s, FirstFailingRecord(s)).reads
       /\ \A i \in 0..(HIST_COUNT - 1) :
            /\ HistStringsOf(sess[s].ed_start.hist[i]) \subseteq HistStringsOf(sess[s].ed.hist[i])
            /\ \A j \in DOMAIN sess[s].sw.reads :
                 (sess[s].sw.reads[j].type = kSDItemHistoryEntry
                  /\ sess[s].sw.reads[j].data.histtype = i)
                 => sess[s].sw.reads[j].data.string \in HistStringsOf(sess[s].ed.hist[i])

\* Reading failed at the second record, a register: the history holds the
\* entry of the first record and the editor's own, the register is the
\* editor's.
C16_Witness ==
  \E s \in DOMAIN sess :
    /\ ReadFailed(s)
    /\ fs.src = <<"hist", "reg">> /\ sess[s].io.err_at = RecordOffset(fs.src, 2)
    /\ sess[s].sw.reads = <<FileItems["hist"].entry>>
    /\ HistStringsOf(sess[s].ed.hist[HIST_CMD]) = {<<101>>, <<102>>}
    /\ sess[s].ed.regs = sess[s].ed_start.regs
    /\ sess[s].ed.regs # <<>>

\* ------------------------------------------------------------------------
\* The name of the temporary file
\* ------------------------------------------------------------------------
\* The session has its temporary file open.
HasTemp(s) ==
  /\ MergingWrite(s) /\ sess[s].sd_writer # 0
  /\ sess[s].pc \in {"write", "written", "remove", "done"}

\* The merging write of s found every name from .tmp.a to .tmp.z taken.
AllTempsExist(s) ==
  /\ MergingWrite(s) /\ sess[s].pc = "done" /\ sess[s].sd_writer = 0
  /\ sess[s].tempname = 122
  /\ \A l \in Letters : fs.temps[l] # 0

BeforeRename(s) == MergingWrite(s) /\ sess[s].pc \in {"write", "written"}

\* C18: two merging writes of one ShaDa file never write to the same
\* temporary file; while both hold a temporary file not yet renamed their
\* suffixes differ, the one that finds a name taken moving on to the next
\* letter; a write fails only when every name up to .tmp.z is taken.
C18_DistinctTempFiles ==
  /\ \A s, t \in DOMAIN sess :
       s # t
       => /\ (sess[s].sd_writer # 0 /\ sess[t].sd_writer # 0)
               => sess[s].sd_writer # sess[t].sd_writer
          /\ (BeforeRename(s) /\ BeforeRename(t)) => sess[s].tempname # sess[t].tempname
  /\ \A s \in DOMAIN sess :
       /\ sess[s].sd_writer # 0 => sess[s].sd_writer # fs.target \/ sess[s].did_remove
       /\ sess[s].result = "FAIL"
            => /\ sess[s].tempname = 122 /\ sess[s].sd_writer = 0
               /\ \A l \in Letters : l < 122 => fs.temps[l] # 0

\* Both writers opened the ShaDa file before either had a temporary file:
\* one writes .tmp.a, the other .tmp.b.
C18_Witness ==
  /\ Len(sess) = 2 /\ fs.ntemps = 0
  /\ BeforeRename(1) /\ BeforeRename(2)
  /\ sess[1].tempname = 97 /\ sess[2].tempname = 98
  /\ sess[1].sw # NoWrite /\ sess[2].sw # NoWrite

\* With 25 names taken, one writer got .tmp.z and the other failed.
C18_LoserFails ==
  /\ Len(sess) = 2 /\ fs.ntemps = 25
  /\ \E s, t \in DOMAIN sess :
       sess[s].result = "FAIL" /\ sess[t].tempname = 122 /\ sess[t].sd_writer # 0

\* ------------------------------------------------------------------------
\* A write after an aborted write
\* ------------------------------------------------------------------------
\* Two merging writes of one ShaDa file, the second begun once the first
\* has returned or was killed.
InitLater ==
  /\ HmsIdle /\ codec = CodecIdle /\ WmsIdle
  /\ \E src \in SeqsUpTo({"hist"}, 1), ntemps \in {0, 1, 24, 25} :
       fs = InitFs(src, FALSE, ntemps)
  /\ \E tsa \in 1..MaxTs :
       sess = <<Session("write", HistEditor(97, tsa), Options(-1), FALSE),
                Session("write", HistEditor(98, 1), Options(-1), FALSE)>>

FirstEnded == sess[1].pc \in {"killed", "done"}

NextLater ==
  \/ WfOpenReader(1, FALSE)
  \/ WfOpenTemp(1, FALSE)
  \/ WfWrite(1, IoOk)
  \/ WfRename(1, TRUE, TRUE)
  \/ WfRemove(1)
  \/ Kill(1)
  \/ FirstEnded /\ WfOpenReader(2, FALSE)
  \/ FirstEnded /\ WfOpenTemp(2, FALSE)
  \/ FirstEnded /\ WfWrite(2, IoOk)
  \/ FirstEnded /\ WfRename(2, TRUE, TRUE)
  \/ FirstEnded /\ WfRemove(2)

SpecLater == InitLater /\ [][NextLater]_vars

\* The first write was killed with its temporary file created and not
\* renamed.
AbortedWithTemp ==
  /\ Len(sess) = 2 /\ sess[1].pc = "killed"
  /\ sess[1].killed_at \in {"write", "written"}

\* C19: the temporary file of a merging write aborted after creating it
\* stays on disk as it was; a later merging write takes the next free
\* letter, and with fewer than 26 temporary files left over it completes
\* and renames its own file over the ShaDa file.
C19_LeftoverTempKept ==
  AbortedWithTemp
  => /\ fs.temps[sess[1].tempname] = sess[1].sd_writer
     /\ fs.inodes[sess[1].sd_writer]
          = (IF sess[1].killed_at = "write" THEN <<>> ELSE sess[1].sw.file)
     /\ \A l \in Letters : l - 97 < fs.ntemps => fs.inodes[fs.temps[l]] = LeftOver
     /\ sess[2].sd_writer # 0
          => /\ sess[2].sd_writer # sess[1].sd_writer
             /\ sess[2].tempname = sess[1].tempname + 1
     /\ sess[2].pc = "done"
          => IF fs.ntemps + 1 < 26
               THEN /\ sess[2].result = "OK" /\ sess[2].did_remove
                    /\ Contents(fs.target) = sess[2].sw.file
                    /\ fs.target = sess[2].sd_writer
               ELSE sess[2].result = "FAIL" /\ fs.target = 1

\* The first write was killed after writing .tmp.a; the second wrote
\* .tmp.b and renamed it over the ShaDa file.
C19_Witness ==
  /\ AbortedWithTemp /\ sess[1].killed_at = "written"
  /\ fs.ntemps = 0 /\ sess[1].tempname = 97 /\ sess[2].tempname = 98
  /\ sess[2].pc = "done" /\ sess[2].did_remove
  /\ fs.target = sess[2].sd_writer
  /\ fs.inodes[fs.temps[97]] = sess[1].sw.file
  /\ fs.temps[98] = 0

\* ------------------------------------------------------------------------
\* Previous files that begin with a line feed
\* ------------------------------------------------------------------------
\* The previous files whose first byte is a line feed: one of the items
\* that begin with it, followed by valid records.
NlFiles ==
  {<<first>> \o rest : first \in NlItemNames,
                       rest \in SeqsUpTo({"hist", "reg"}, MaxFileRecs - 1)}

\* One editor writing or reading such a file.
InitNl ==
  /\ HmsIdle /\ codec = CodecIdle /\ WmsIdle
  /\ \E src \in NlFiles : fs = InitFs(src, FALSE, 0)
  /\ \E ed \in {EmptyEditor, BusyEditor(1)}, opts \in OptionSets,
        op \in {"write", "read"}, nomerge \in BOOLEAN :
       /\ op = "read" => ~nomerge
       /\ sess = <<Session(op, ed, opts, nomerge)>>

NextNl ==
  \/ \E s \in DOMAIN sess, err \in BOOLEAN : WfOpenReader(s, err)
  \/ \E s \in DOMAIN sess, err \in BOOLEAN : WfOpenTemp(s, err)
  \/ \E s \in DOMAIN sess, err \in BOOLEAN : WfOpenTarget(s, err)
  \/ \E s \in DOMAIN sess, io \in IoChoices : WfWrite(s, io)
  \/ \E s \in DOMAIN sess, writable \in BOOLEAN, rename_ok \in BOOLEAN :
        WfRename(s, writable, rename_ok)
  \/ \E s \in DOMAIN sess : WfRemove(s)
  \/ \E s \in DOMAIN sess, err \in BOOLEAN, err_at \in ReadErrorOffsets(fs.src) :
        RfRead(s, err, err_at)
  \/ \E s \in DOMAIN sess : Kill(s)

SpecNl == InitNl /\ [][NextNl]_vars

\* A merging write that has opened its temporary file, called shada_write
\* and finished, and whose previous file began with a line feed.
NlWriteDone(s) ==
  /\ MergingWrite(s) /\ sess[s].pc = "done" /\ sess[s].sw # NoWrite
  /\ sess[s].prev # NULL /\ Len(sess[s].prev) > 0 /\ sess[s].prev[1] = NL

\* The temporary file of the write is on disk under its name, and the
\* ShaDa file is the previous file with its previous contents.
NotRenamed(s) ==
  /\ fs.target = sess[s].sd_reader
  /\ Contents(fs.target) = sess[s].prev
  /\ fs.temps[sess[s].tempname] = sess[s].sd_writer
  /\ ~sess[s].did_remove

\* The payload of length n at index i of b is all there and is exactly one
\* MessagePack object.
OneObjectAt(b, i, n) ==
  /\ i + n - 1 <= Len(b)
  /\ unpack_skip(SubSeq(b, i, i + n - 1), 1) = [status |-> "ok", next |-> n + 1]

\* The bytes b, which begin with one byte of type, go on as a record: a
\* timestamp and a length that are unsigned integers, and a payload of
\* that length that is exactly one MessagePack object.
FirstRecordVerifies(b) ==
  /\ IsUint(mpack_rtoken(b, 2))
  /\ IsUint(mpack_rtoken(b, mpack_rtoken(b, 2).next))
  /\ OneObjectAt(b, mpack_rtoken(b, mpack_rtoken(b, 2).next).next,
                 mpack_rtoken(b, mpack_rtoken(b, 2).next).val)

C20_VerifiedNewlineFileRenamed ==
  \E s \in DOMAIN sess :
    /\ NlWriteDone(s)
    /\ fs.src = <<"nlrec", "hist">>
    /\ sess[s].opts = Options(-1)
    /\ sess[s].io = IoOk
    /\ FirstRecordVerifies(sess[s].prev)
    /\ sess[s].sw.ret = kSDWriteSuccessful
    /\ sess[s].sw.reads = <<FileItems["hist"].entry>>
    /\ fs.target = sess[s].sd_writer
    /\ sess[s].did_remove

\* With an item size of 0 nothing is read and the empty temporary file
\* replaces a previous file that begins with 0x0a.
C20_ZeroSizeRenamed ==
  \E s \in DOMAIN sess :
    /\ NlWriteDone(s)
    /\ fs.src = <<"nltext">>
    /\ sess[s].opts = Options(0)
    /\ fs.target = sess[s].sd_writer
    /\ Contents(fs.target) = <<>>

\* ------------------------------------------------------------------------
\* Reading into an editor that has values of its own
\* ------------------------------------------------------------------------
\* An editor with register a, a search pattern, a substitute pattern, a
\* replacement string and the global mark A, all of them set at time 2.
ReadEditor ==
  [EmptyEditor EXCEPT
     !.regs = <<[name |-> 97, y_array |-> <<(<<101>>)>>, y_type |-> kMTCharWise,
                 y_width |-> 0, timestamp |-> 2, additional_data |-> NoAdditionalData,
                 is_unnamed |-> FALSE]>>,
     !.search_pattern = [NoPattern EXCEPT !.pat = <<101>>, !.timestamp = 2],
     !.sub_pattern = [NoPattern EXCEPT !.pat = <<102>>, !.timestamp = 2],
     !.replacement = [sub |-> <<101>>, timestamp |-> 2,
                      additional_data |-> NoAdditionalData],
     !.namedfm = <<[name |-> 65, mark |-> [lnum |-> 3, col |-> 0, coladd |-> 0],
                    fname |-> <<102>>, timestamp |-> 2,
                    additional_data |-> NoAdditionalData]>>]

\* :rshada and :rshada! of a file of such records, with and without a cap
\* of 2 on the lines of a register.
InitRead ==
  /\ HmsIdle /\ codec = CodecIdle /\ WmsIdle
  /\ \E src \in SeqsUpTo(ReadItemNames, MaxFileRecs) : fs = InitFs(src, FALSE, 0)
  /\ \E ed \in {EmptyEditor, ReadEditor}, force \in BOOLEAN, max_reg_lines \in {-1, 2} :
       /\ max_reg_lines = 2 => \E i \in DOMAIN fs.src : fs.src[i] = "long3"
       /\ sess = <<[Session("read", ed, [Options(-1) EXCEPT !.max_reg_lines = max_reg_lines],
                            FALSE)
                      EXCEPT !.rflags.force = force]>>

NextRead ==
  \/ \E s \in DOMAIN sess, err \in BOOLEAN : RfRead(s, err, -1)

SpecRead == InitRead /\ [][NextRead]_vars

\* A read that has gone through the whole file.
ReadDone(s) ==
  /\ sess[s].op = "read" /\ sess[s].pc = "done" /\ sess[s].result = "OK"
  /\ sess[s].io.err_at = -1

\* The register a of the editor ed is unset.
RegisterUnset(ed, name) == op_reg_get(ed.regs, name).y_array = <<>>

\* C21 as stated: with a cap of 2 on the lines of a register, a read of a
\* file that holds register a with 3 lines leaves register a of an editor
\* that had none unset.
C21_LongRegisterNotInstalled ==
  \A s \in DOMAIN sess :
    (/\ ReadDone(s)
     /\ sess[s].opts.max_reg_lines = 2
     /\ RegisterUnset(sess[s].ed_start, 97)
     /\ \A i \in DOMAIN sess[s].sw.reads :
          sess[s].sw.reads[i].type = kSDItemRegister
          => Len(sess[s].sw.reads[i].data.contents) > sess[s].opts.max_reg_lines)
    => RegisterUnset(sess[s].ed, 97)

\* The read installs the register of 3 lines in spite of the cap of 2.
C21_LongRegisterInstalled ==
  \E s \in DOMAIN sess :
    /\ ReadDone(s)
    /\ sess[s].opts.max_reg_lines = 2
    /\ ~sess[s].rflags.force
    /\ fs.src = <<"long3">>
    /\ sess[s].ed_start = EmptyEditor
    /\ op_reg_get(sess[s].ed.regs, 97).y_array = <<(<<120>>), <<121>>, <<122>> >>

\* What the editor ed holds of one kind (register a, search pattern,
\* substitute pattern, replacement string, global mark A): whether it has a
\* value, its timestamp and the value.
SlotOf(ed, kind) ==
  CASE kind = "reg" ->
         [has |-> op_reg_get(ed.regs, 97).y_array # <<>>,
          ts |-> op_reg_get(ed.regs, 97).timestamp,
          val |-> op_reg_get(ed.regs, 97).y_array]
    [] kind = "pat" ->
         [has |-> ed.search_pattern.pat # NULL, ts |-> ed.search_pattern.timestamp,
          val |-> <<ed.search_pattern.pat>>]
    [] kind = "sub" ->
         [has |-> ed.sub_pattern.pat # NULL, ts |-> ed.sub_pattern.timestamp,
          val |-> <<ed.sub_pattern.pat>>]
    [] kind = "rep" ->
         [has |-> ed.replacement.sub # NULL, ts |-> ed.replacement.timestamp,
          val |-> <<ed.replacement.sub>>]
    [] kind = "mark" ->
         [has |-> mark_get_global(ed.namedfm, 65).fname # NULL,
          ts |-> mark_get_global(ed.namedfm, 65).timestamp,
          val |-> <<mark_get_global(ed.namedfm, 65).fname,
                    <<mark_get_global(ed.namedfm, 65).mark.lnum,
                      mark_get_global(ed.namedfm, 65).mark.col>> >>]

\* The kind of a record that was read.
KindOf(entry) ==
  CASE entry.type = kSDItemRegister -> "reg"
    [] entry.type = kSDItemSearchPattern ->
         IF entry.data.is_substitute_pattern THEN "sub" ELSE "pat"
    [] entry.type = kSDItemSubString -> "rep"
    [] entry.type = kSDItemGlobalMark -> "mark"
    [] OTHER -> "none"

\* What the editor holds once the record has replaced its value.
SlotOfRecord(entry) ==
  [has |-> TRUE, ts |-> entry.timestamp,
   val |-> CASE entry.type = kSDItemRegister -> entry.data.contents
             [] entry.type = kSDItemSearchPattern -> <<entry.data.pat>>
             [] entry.type = kSDItemSubString -> <<entry.data.sub>>
             [] entry.type = kSDItemGlobalMark ->
                  <<entry.data.fname, <<entry.data.mark.lnum, entry.data.mark.col>> >>]

ReadKinds == {"reg", "pat", "sub", "rep", "mark"}

\* The records of one kind among those read, in the order of the file.
RecordsOfKind(reads, kind) == SelectSeq(reads, LAMBDA e : KindOf(e) = kind)

\* start and fin are what the editor held of one kind before and after a
\* read without force of the records recs: a record has replaced the value
\* only if the editor had none or the record was strictly newer than the
\* editor's, and every such record has replaced it or lost to a newer one.
NewerReplaces(start, fin, recs) ==
  /\ fin # start
       => \E i \in DOMAIN recs :
            /\ fin = SlotOfRecord(recs[i])
            /\ ~start.has \/ recs[i].timestamp > start.ts
  /\ \A i \in DOMAIN recs :
       (~start.has \/ recs[i].timestamp > start.ts)
       => fin # start /\ fin.ts >= recs[i].timestamp
  /\ \A i \in DOMAIN recs :
       (start.has /\ recs[i].timestamp <= start.ts) => fin # SlotOfRecord(recs[i])

\* With force the last record of the kind has replaced the value.
LastReplaces(start, fin, recs) ==
  fin = IF recs = <<>> THEN start ELSE SlotOfRecord(recs[Len(recs)])

\* C22: on a read without force a file record for a register, the search
\* pattern, the substitute pattern, the replacement string or a global mark
\* replaces the editor's value only when the editor has none or the record's
\* timestamp is strictly greater than the editor's; with force the record
\* replaces the editor's value whatever the timestamps.
C22_ReadReplacesNewer ==
  \A s \in DOMAIN sess :
    ReadDone(s)
    => \A kind \in ReadKinds :
         IF sess[s].rflags.force
           THEN LastReplaces(SlotOf(sess[s].ed_start, kind), SlotOf(sess[s].ed, kind),
                             RecordsOfKind(sess[s].sw.reads, kind))
           ELSE NewerReplaces(SlotOf(sess[s].ed_start, kind), SlotOf(sess[s].ed, kind),
                              RecordsOfKind(sess[s].sw.reads, kind))

\* A read without force of an equal-timestamp mark and a newer register:
\* the mark stays, the register is replaced.
C22_Witness ==
  \E s \in DOMAIN sess :
    /\ ReadDone(s) /\ ~sess[s].rflags.force
    /\ fs.src = <<"mark2", "reg3">>
    /\ Len(sess[s].sw.reads) = 2
    /\ sess[s].ed_start = ReadEditor
    /\ SlotOf(sess[s].ed, "mark") = SlotOf(ReadEditor, "mark")
    /\ SlotOf(sess[s].ed, "reg") = [has |-> TRUE, ts |-> 3, val |-> <<(<<51>>)>>]

\* With force an older mark replaces the editor's.
C22_ForceWitness ==
  \E s \in DOMAIN sess :
    /\ ReadDone(s) /\ sess[s].rflags.force
    /\ fs.src = <<"mark1">>
    /\ sess[s].ed_start = ReadEditor
    /\ SlotOf(sess[s].ed, "mark") = [has |-> TRUE, ts |-> 1, val |-> <<(<<103, 49>>), <<7, 4>> >>]

\* ------------------------------------------------------------------------
\* Failed emissions
\* ------------------------------------------------------------------------
\* A shada_pack_entry call of the write returned kSDWriteFailed.
EmissionFailed(s) ==
  \E i \in DOMAIN sess[s].sw.packs : sess[s].sw.packs[i].ret = kSDWriteFailed

\* C23 as stated: when an emission of a merging write fails with
\* kSDWriteFailed, that of a record passed through from the previous file
\* included, shada_write returns kSDWriteFailed and the temporary file is
\* not renamed over the ShaDa file.
C23_EmissionFailureFailsWrite ==
  \A s \in DOMAIN sess :
    (MergingWrite(s) /\ sess[s].sw # NoWrite /\ sess[s].pc = "done" /\ EmissionFailed(s))
    => /\ sess[s].sw.ret = kSDWriteFailed
       /\ fs.target = sess[s].sd_reader
       /\ Contents(fs.target) = sess[s].prev

\* The emission of the first of two variables passed through fails, that of
\* the second succeeds: shada_write returns kSDWriteSuccessful and the
\* temporary file, which lacks the header the failed flush dropped, replaces
\* the ShaDa file.
C23_FailureOverwritten ==
  \E s \in DOMAIN sess :
    /\ MergingWrite(s) /\ sess[s].pc = "done"
    /\ fs.src = <<"var", "var">> /\ sess[s].ed_start = EmptyEditor
    /\ sess[s].io = [IoOk EXCEPT !.fail_at = 2, !.heal = TRUE]
    /\ Len(sess[s].sw.packs) = 3
    /\ sess[s].sw.packs[2].ret = kSDWriteFailed
    /\ sess[s].sw.packs[3].ret = kSDWriteSuccessful
    /\ sess[s].sw.srww_ret = kSDWriteSuccessful
    /\ sess[s].sw.ret = kSDWriteSuccessful
    /\ fs.target = sess[s].sd_writer
    /\ Contents(fs.target) = FileBytes(<<"var", "var">>)

\* ------------------------------------------------------------------------
\* The return value of shada_write_file
\* ------------------------------------------------------------------------
\* The ShaDa file is the file this write wrote, and the write was
\* successful.
TargetWritten(s) ==
  /\ sess[s].sw # NoWrite
  /\ sess[s].sw.ret = kSDWriteSuccessful
  /\ fs.target = sess[s].sd_writer
  /\ Contents(fs.target) = sess[s].sw.file

\* C24 as stated: shada_write_file returns OK if and only if writing was
\* successful, the ShaDa file now holding the newly written data, and FAIL
\* in every other case.
C24_OkIffWritten ==
  \A s \in DOMAIN sess :
    (sess[s].op = "write" /\ sess[s].pc = "done")
    => (sess[s].result = "OK" <=> TargetWritten(s))

\* shada_write_file returns OK although the previous file was not a ShaDa
\* file and the temporary file was not renamed.
C24_OkWithoutRename ==
  \E s \in DOMAIN sess :
    /\ MergingWrite(s) /\ sess[s].pc = "done"
    /\ fs.src = <<"junk">>
    /\ sess[s].sw.ret = kSDWriteReadNotShada
    /\ fs.target = sess[s].sd_reader
    /\ sess[s].result = "OK"

\* FAIL is returned only where no file could be opened for writing, and
\* then shada_write was not called.
C24_FailOnlyBeforeWrite ==
  \A s \in DOMAIN sess :
    (sess[s].op = "write" /\ sess[s].pc = "done")
    => (sess[s].result = "FAIL" <=> sess[s].sw = NoWrite)

\* ------------------------------------------------------------------------
\* An entry older than a full ring
\* ------------------------------------------------------------------------
\* The ring is full, entry is older than every entry of it and its string
\* is not in it.
OlderThanFullRing(entry) ==
  /\ hms_p.hmll.num_entries = hms_p.hmll.size
  /\ HistKey(entry) \notin DOMAIN hms_p.hmll.contained_entries
  /\ \A i \in DOMAIN RingData : entry.timestamp < RingData[i].timestamp

\* C25 as stated: when the ring is full and hms_insert is given an entry
\* older than every entry of the ring whose string is not in the ring, the
\* entry is dropped and the ring is left unchanged.
C25_OlderEntryDropped ==
  [][\A entry \in RingEntries :
       (/\ hms_phase = "ring"
        /\ OlderThanFullRing(entry)
        /\ hms_log'.seq = Append(hms_log.seq, entry))
       => RingData' = RingData]_vars

\* A ring of two that holds b of time 2 and c of time 3 and was then given
\* a of time 1 holds a and c: the older entry took the place of b.
C25_OlderEntryEvictsOldest ==
  /\ hms_phase = "ring"
  /\ hms_p.hmll.size = 2
  /\ hms_log.seq = <<HistoryEntry(HIST_CMD, <<98>>, 2, NoAdditionalData),
                     HistoryEntry(HIST_CMD, <<99>>, 3, NoAdditionalData),
                     HistoryEntry(HIST_CMD, <<97>>, 1, NoAdditionalData)>>
  /\ RingData = <<HistoryEntry(HIST_CMD, <<97>>, 1, NoAdditionalData),
                  HistoryEntry(HIST_CMD, <<99>>, 3, NoAdditionalData)>>

\* ------------------------------------------------------------------------
\* The order of the ring
\* ------------------------------------------------------------------------
\* C26: after every hms_insert, evictions, removals of an older duplicate
\* and replacements on a tie included, the ring walked from first to last
\* has non-decreasing timestamps; first is the oldest entry and last the
\* newest.
C26_RingAscending ==
  /\ Ascending(RingData)
  /\ Len(RingData) = hms_p.hmll.num_entries
  /\ ~hms_p.hmll.assert_failed
  /\ hms_p.hmll.num_entries > 0
       => /\ hms_p.hmll.entries[hms_p.hmll.first].data = RingData[1]
          /\ hms_p.hmll.entries[hms_p.hmll.last].data = RingData[Len(RingData)]
          /\ \A i \in DOMAIN RingData :
               /\ RingData[1].timestamp <= RingData[i].timestamp
               /\ RingData[i].timestamp <= RingData[Len(RingData)].timestamp

\* A full ring of two entries of different times, after a replacement on a
\* tie and the removal of an older duplicate by the call just made.
C26_Witness ==
  /\ hms_phase \in {"merge", "drain", "done"}
  /\ hms_p.hmll.size = 2 /\ hms_p.hmll.num_entries = 2
  /\ RingData[1].timestamp < RingData[2].timestamp
  /\ hms_log.ties # {}
  /\ hms_log.call.found
  /\ hms_log.call.existing_ts < hms_log.call.entry.timestamp
  /\ hms_log.ninserts >= 2

\* ------------------------------------------------------------------------
\* The order of the records of the previous file
\* ------------------------------------------------------------------------
\* The records merged: history entries, jumps and register a.
OrderRecords ==
  {HistoryEntry(HIST_CMD, str, ts, NoAdditionalData) :
     str \in {<<97>>, <<98>>}, ts \in Timestamps}
  \cup {Jump(lnum, ts) : lnum \in 1..2, ts \in Timestamps}
  \cup {ReadRecord("reg", ts) : ts \in Timestamps}

\* The merger of a write by the editor ed with p_hi history entries, before
\* the previous file is read; log is a history variable, the records merged
\* so far.
InitOrder ==
  /\ \E ed \in {EmptyEditor, HistEditor(99, 1)}, p_hi \in 1..MaxRing :
       wms_p = [pc |-> "order", ed |-> ed,
                start |-> WriteInit(ed, [Options(-1) EXCEPT !.p_hi = p_hi], TRUE),
                w |-> WriteInit(ed, [Options(-1) EXCEPT !.p_hi = p_hi], TRUE),
                log |-> <<>>]
  /\ HmsIdle /\ codec = CodecIdle /\ FileIdle

\* One record of the previous file goes through the switch of
\* shada_read_when_writing.
OrderMerge(entry) ==
  /\ wms_p.pc = "order"
  /\ Len(wms_p.log) < MaxFileInserts
  /\ wms_p' = [wms_p EXCEPT !.w = MergeEntry(@, entry, wms_p.ed, IoOk),
                            !.log = Append(@, entry)]
  /\ UNCHANGED <<hmsVars, codecVars, fileVars>>

NextOrder == \E entry \in OrderRecords : OrderMerge(entry)

SpecOrder == InitOrder /\ [][NextOrder]_vars

\* The merger after the records recs went through the switch in their
\* order.
RECURSIVE MergeAll(_, _, _)
MergeAll(w, recs, ed) ==
  IF recs = <<>> THEN w ELSE MergeAll(MergeEntry(w, Head(recs), ed, IoOk), Tail(recs), ed)

\* What the merger holds: the history rings from first to last, the jump
\* list and the register slots.
MergerView(w) ==
  [hist |-> [i \in 0..(HIST_COUNT - 1) |-> NodeData(HMLL_FORALL(w.wms.hms[i].hmll))],
   jumps |-> w.wms.jumps, registers |-> w.wms.registers]

\* The orders in which the records recs may lie in a file.
OrdersOf(recs) ==
  {[i \in DOMAIN recs |-> recs[p[i]]] : p \in Permutations(DOMAIN recs)}

\* C27 as stated: for a fixed editor state and a fixed multiset of records
\* of the previous file, the merger after the merge pass holds the same for
\* every order of the records in the file.
C27_OrderIrrelevant ==
  wms_p.pc = "order"
  => \A recs \in OrdersOf(wms_p.log) :
       MergerView(MergeAll(wms_p.start, recs, wms_p.ed)) = MergerView(wms_p.w)

\* A ring of one entry given b of time 2 and then a of time 1 holds a;
\* given a and then b it holds b.
C27_OrderChangesRing ==
  /\ wms_p.pc = "order"
  /\ wms_p.ed = EmptyEditor
  /\ wms_p.log = <<HistoryEntry(HIST_CMD, <<98>>, 2, NoAdditionalData),
                   HistoryEntry(HIST_CMD, <<97>>, 1, NoAdditionalData)>>
  /\ MergerView(wms_p.w).hist[HIST_CMD]
       = <<HistoryEntry(HIST_CMD, <<97>>, 1, NoAdditionalData)>>
  /\ MergerView(MergeAll(wms_p.start,
                         <<HistoryEntry(HIST_CMD, <<97>>, 1, NoAdditionalData),
                           HistoryEntry(HIST_CMD, <<98>>, 2, NoAdditionalData)>>,
                         wms_p.ed)).hist[HIST_CMD]
       = <<HistoryEntry(HIST_CMD, <<98>>, 2, NoAdditionalData)>>

\* ------------------------------------------------------------------------
\* The jump list and the change lists of a write
\* ------------------------------------------------------------------------
Change(fname, lnum, timestamp) ==
  Entry(kSDItemChange, timestamp,
        [name |-> 0, mark |-> [lnum |-> lnum, col |-> 0, coladd |-> 0],
         fname |-> fname], NoAdditionalData)

ChangeOfBuffer(lnum, timestamp) == Change(<<102>>, lnum, timestamp)

\* A jump or a change of the buffer, as type says.
MarkOfType(type, lnum, timestamp) ==
  IF type = kSDItemJump THEN Jump(lnum, timestamp) ELSE ChangeOfBuffer(lnum, timestamp)

\* A list of the editor of n entries at the lines 1..n, ascending by
\* timestamp: lo for the first split entries and hi for the others.
ListOf(type, n, split, lo, hi) ==
  [i \in 1..n |-> MarkOfType(type, i, IF i <= split THEN lo ELSE hi)]

\* The lists the editor starts from: none, a short one, one entry short of
\* full, and full ones with the record timestamps below, in and above them.
EditorLists(type) ==
  <<<<>>,
    ListOf(type, 2, 1, 1, 2),
    ListOf(type, JUMPLISTSIZE - 1, 0, 2, 2),
    ListOf(type, JUMPLISTSIZE, 0, 2, 2),
    ListOf(type, JUMPLISTSIZE, JUMPLISTSIZE \div 2, 1, MaxTs + 1)>>

FileListRecords ==
  {Jump(lnum, ts) : lnum \in {1, JUMPLISTSIZE}, ts \in 1..(MaxTs + 1)}
  \cup {Change(fname, lnum, ts) :
          fname \in {<<102>>, <<103>>}, lnum \in {1, JUMPLISTSIZE}, ts \in 1..(MaxTs + 1)}

InitLists ==
  /\ \E k \in DOMAIN EditorLists(kSDItemJump) :
       wms_p = [pc |-> "init", editor |-> k,
                jumps |-> <<>>, file_marks |-> NoFiles,
                log |-> [prev |-> <<>>, entry |-> MissingEntry, nfile |-> 0]]
  /\ HmsIdle /\ codec = CodecIdle /\ FileIdle

ListsInitialize ==
  /\ wms_p.pc = "init"
  /\ wms_p' = [wms_p EXCEPT
                 !.pc = "merge",
                 !.jumps = shada_init_jumps(EditorLists(kSDItemJump)[wms_p.editor]),
                 !.file_marks =
                    InitializeBuffer(@, <<102>>, <<>>,
                                     EditorLists(kSDItemChange)[wms_p.editor])]
  /\ UNCHANGED <<hmsVars, codecVars, fileVars>>

\* The merger's list a record goes to: the jump list, or the change list
\* of the record's file.
ListFor(w, entry) ==
  IF entry.type = kSDItemJump THEN w.jumps
  ELSE FileMarksOf(w.file_marks, entry.data.fname).changes

\* cases kSDItemJump and kSDItemChange of shada_read_when_writing.
ListsMerge(entry) ==
  /\ wms_p.pc = "merge"
  /\ wms_p.log.nfile < MaxFileInserts
  /\ wms_p' =
       [wms_p EXCEPT
          !.jumps =
             MergeEntry([wms |-> [jumps |-> @, file_marks |-> wms_p.file_marks]],
                        entry, EmptyEditor, IoOk).wms.jumps,
          !.file_marks =
             MergeEntry([wms |-> [jumps |-> wms_p.jumps, file_marks |-> @]],
                        entry, EmptyEditor, IoOk).wms.file_marks,
          !.log = [prev |-> ListFor(wms_p, entry), entry |-> entry,
                   nfile |-> @.nfile + 1]]
  /\ UNCHANGED <<hmsVars, codecVars, fileVars>>

NextLists ==
  \/ ListsInitialize
  \/ \E entry \in FileListRecords : ListsMerge(entry)

SpecLists == InitLists /\ [][NextLists]_vars

ListMerged == "file_marks" \in DOMAIN wms_p /\ wms_p.log.nfile > 0

\* No entry is newer than the next one.
AscendingList(list) ==
  \A i \in 1..(Len(list) - 1) : list[i].data.timestamp <= list[i + 1].data.timestamp

\* The list with entry put after the k-th entry and the oldest one gone.
EvictedOldest(list, k, entry) ==
  SubSeq(list, 2, k) \o <<PFSE(TRUE, entry)>> \o SubSeq(list, k + 1, Len(list))

\* C28: the jump list and every file's change list hold at most JUMPLISTSIZE
\* entries in non-decreasing timestamp order after any sequence of records
\* of the file; on a full list a record older than every entry is dropped,
\* and any other record that is inserted takes the place after the nearest
\* entry not newer than it while exactly the oldest entry goes.
C28_ListsBoundedAscending ==
  "file_marks" \in DOMAIN wms_p
  => /\ Len(wms_p.jumps) <= JUMPLISTSIZE /\ AscendingList(wms_p.jumps)
     /\ \A f \in DOMAIN wms_p.file_marks :
          /\ Len(wms_p.file_marks[f].changes) <= JUMPLISTSIZE
          /\ AscendingList(wms_p.file_marks[f].changes)
     /\ (wms_p.log.nfile > 0 /\ Len(wms_p.log.prev) = JUMPLISTSIZE)
          => /\ OlderNeighbour(wms_p.log.prev, wms_p.log.entry) = 0
                  => ListFor(wms_p, wms_p.log.entry) = wms_p.log.prev
             /\ (OlderNeighbour(wms_p.log.prev, wms_p.log.entry) > 0
                 /\ ~OlderNeighbourSame(wms_p.log.prev, wms_p.log.entry))
                  => ListFor(wms_p, wms_p.log.entry) =
                       EvictedOldest(wms_p.log.prev,
                                     OlderNeighbour(wms_p.log.prev, wms_p.log.entry),
                                     wms_p.log.entry)

\* A change of the file went into the middle of the full change list of its
\* file: the oldest change is gone and the list is still full.
C28_Witness ==
  /\ ListMerged
  /\ wms_p.log.entry.type = kSDItemChange
  /\ Len(wms_p.log.prev) = JUMPLISTSIZE
  /\ OlderNeighbour(wms_p.log.prev, wms_p.log.entry) = JUMPLISTSIZE \div 2
  /\ Len(ListFor(wms_p, wms_p.log.entry)) = JUMPLISTSIZE
  /\ ListFor(wms_p, wms_p.log.entry)[1] = wms_p.log.prev[2]
  /\ ListFor(wms_p, wms_p.log.entry)[JUMPLISTSIZE \div 2] = PFSE(TRUE, wms_p.log.entry)
  /\ ListFor(wms_p, wms_p.log.entry)[JUMPLISTSIZE] = wms_p.log.prev[JUMPLISTSIZE]

\* A jump older than the whole full jump list was dropped.
C28_OlderThanFullListDropped ==
  /\ ListMerged
  /\ wms_p.log.entry.type = kSDItemJump
  /\ Len(wms_p.log.prev) = JUMPLISTSIZE
  /\ \A i \in DOMAIN wms_p.log.prev :
       wms_p.log.prev[i].data.timestamp > wms_p.log.entry.timestamp
  /\ wms_p.jumps = wms_p.log.prev

\* A list one entry short of full became full and then lost its oldest
\* entry to a newer record.
C28_FilledThenEvicted ==
  /\ ListMerged
  /\ wms_p.log.nfile = 2
  /\ Len(wms_p.log.prev) = JUMPLISTSIZE
  /\ wms_p.log.prev[1].can_free_entry = FALSE
  /\ \E i \in DOMAIN wms_p.log.prev : wms_p.log.prev[i].can_free_entry
  /\ ListFor(wms_p, wms_p.log.entry)[JUMPLISTSIZE] = PFSE(TRUE, wms_p.log.entry)
  /\ ListFor(wms_p, wms_p.log.entry)[1] = wms_p.log.prev[2]

\* ------------------------------------------------------------------------
\* Duplicates among the numbered marks of a write
\* ------------------------------------------------------------------------
SameNumberedMark(a, b) ==
  /\ a.type = kSDItemGlobalMark /\ b.type = kSDItemGlobalMark
  /\ a.timestamp = b.timestamp
  /\ marks_equal(a.data.mark, b.data.mark)
  /\ a.data.fname = b.data.fname

NumberedMarkMerged ==
  "numbered_marks" \in DOMAIN wms_p /\ wms_p.pc = "merge" /\ wms_p.log.nfile > 0

\* C29 as stated: a numbered mark of the file that equals a mark of the
\* array in timestamp, position and file is discarded, and no two marks of
\* the array are equal in these three.
C29_NoDuplicateNumberedMarks ==
  NumberedMarkMerged
  => /\ (\E i \in 0..(EXTRA_MARKS - 1) :
           SameNumberedMark(wms_p.log.prev[i].data, wms_p.log.entry.data))
          => wms_p.numbered_marks = wms_p.log.prev
     /\ \A i, j \in 0..(EXTRA_MARKS - 1) :
          i < j => ~SameNumberedMark(wms_p.numbered_marks[i].data,
                                     wms_p.numbered_marks[j].data)

\* A mark with the timestamp of the record and another position stands
\* between the record and its equal: the scan stops there and the record is
\* stored a second time, neither of the two having additional data.
C29_TieHidesDuplicate ==
  /\ NumberedMarkMerged
  /\ wms_p.log.entry.data.additional_data = NoAdditionalData
  /\ \E i, j \in 0..(EXTRA_MARKS - 1) :
       /\ i + 1 < j
       /\ wms_p.numbered_marks[i].data.additional_data = NoAdditionalData
       /\ wms_p.numbered_marks[j] =
            [wms_p.log.entry EXCEPT !.data.data.name = 48 + j]
       /\ SameNumberedMark(wms_p.numbered_marks[i].data, wms_p.numbered_marks[j].data)
       /\ wms_p.numbered_marks[i + 1].data.timestamp = wms_p.log.entry.data.timestamp
       /\ ~SameNumberedMark(wms_p.numbered_marks[i + 1].data, wms_p.log.entry.data)

\* A record with additional data is stored next to its equal.
C29_ExtraDataDuplicate ==
  /\ NumberedMarkMerged
  /\ wms_p.log.entry.data.additional_data # NoAdditionalData
  /\ \E i \in 0..(EXTRA_MARKS - 2) :
       /\ wms_p.numbered_marks[i + 1] =
            [wms_p.log.entry EXCEPT !.data.data.name = 48 + i + 1]
       /\ SameNumberedMark(wms_p.numbered_marks[i].data, wms_p.log.entry.data)

\* A record that equals the first mark the scan meets that is not older,
\* neither having additional data, is discarded.
C29_NearestDuplicateDiscarded ==
  NumberedMarkMerged
  => \A i \in 0..(EXTRA_MARKS - 1) :
       (/\ SameNumberedMark(wms_p.log.prev[i].data, wms_p.log.entry.data)
        /\ wms_p.log.prev[i].data.additional_data = NoAdditionalData
        /\ wms_p.log.entry.data.additional_data = NoAdditionalData
        /\ \A j \in (i + 1)..(EXTRA_MARKS - 1) :
             wms_p.log.prev[j].data.type = kSDItemGlobalMark
               => wms_p.log.prev[j].data.timestamp < wms_p.log.entry.data.timestamp)
         => wms_p.numbered_marks = wms_p.log.prev

\* ------------------------------------------------------------------------
\* The global marks A-Z of a write
\* ------------------------------------------------------------------------
\* A mark of the editor as mark_global_iter yields it.
EditorMark(name, fname, timestamp) ==
  [name |-> name, mark |-> [lnum |-> 2, col |-> 0, coladd |-> 0], fname |-> fname,
   timestamp |-> timestamp, additional_data |-> NoAdditionalData]

\* Editors with or without the mark A in the file e and with or without the
\* mark B in the file r, which the 'shada' option excludes.
GlobalsEditors ==
  {[EmptyEditor EXCEPT !.namedfm = a \o b, !.removable = {<<114>>}] :
     a \in {<<>>} \cup {<<EditorMark(65, <<101>>, ts)>> : ts \in 1..(MaxTs + 1)},
     b \in {<<>>} \cup {<<EditorMark(66, <<114>>, ts)>> : ts \in 1..(MaxTs + 1)}}

FileGlobalMarks ==
  {GlobalMark(name, <<102>>, 1, ts, NoAdditionalData) :
     name \in {65, 66}, ts \in 1..(MaxTs + 1)}

InitGlobals ==
  /\ \E ed \in GlobalsEditors :
       wms_p = [pc |-> "init", ed |-> ed, global_marks |-> NoGlobalMarks, log |-> <<>>]
  /\ HmsIdle /\ codec = CodecIdle /\ FileIdle

GlobalsInitialize ==
  /\ wms_p.pc = "init"
  /\ wms_p' = [wms_p EXCEPT
                 !.pc = "merge",
                 !.global_marks = InitializeGlobalMarks(@, wms_p.ed, wms_p.ed.namedfm)]
  /\ UNCHANGED <<hmsVars, codecVars, fileVars>>

\* case kSDItemGlobalMark of shada_read_when_writing, for a mark A-Z.
GlobalsMerge(entry) ==
  /\ wms_p.pc = "merge"
  /\ Len(wms_p.log) < MaxFileInserts
  /\ wms_p' =
       [wms_p EXCEPT
          !.global_marks =
             MergeEntry([wms |-> [global_marks |-> @]], entry, wms_p.ed, IoOk)
               .wms.global_marks,
          !.log = Append(@, entry)]
  /\ UNCHANGED <<hmsVars, codecVars, fileVars>>

NextGlobals ==
  \/ GlobalsInitialize
  \/ \E entry \in FileGlobalMarks : GlobalsMerge(entry)

SpecGlobals == InitGlobals /\ [][NextGlobals]_vars

GlobalsMerged == "global_marks" \in DOMAIN wms_p /\ wms_p.pc = "merge"

\* The timestamps of the records of the file for the mark name.
RecordTimestamps(log, name) ==
  {log[i].timestamp : i \in {k \in DOMAIN log : log[k].data.name = name}}

\* The timestamp of the editor's mark name, 0 when it has none.
EditorTimestamp(ed, name) == mark_get_global(ed.namedfm, name).timestamp

\* The editor has the mark name and it is not in the merger's slot.
NotPlaced(ed, name) ==
  /\ EditorTimestamp(ed, name) > 0
  /\ shada_removable(ed, mark_get_global(ed.namedfm, name).fname)

\* C30: after the merge pass the record held for a mark A-Z has the
\* greatest timestamp among the editor's mark and the records of the file for
\* that letter; a record of the file is held only when it is strictly newer
\* than the editor's mark, also when the editor's mark is not in the slot,
\* and then no record is held unless one of the file is newer than that mark.
C30_NewestGlobalMarkHeld ==
  GlobalsMerged
  => \A name \in 65..90 :
       /\ wms_p.global_marks[name - 65].data.type # kSDItemMissing
            => /\ wms_p.global_marks[name - 65].data.timestamp >=
                    EditorTimestamp(wms_p.ed, name)
               /\ \A ts \in RecordTimestamps(wms_p.log, name) :
                    wms_p.global_marks[name - 65].data.timestamp >= ts
               /\ wms_p.global_marks[name - 65].can_free_entry
                    => /\ \E i \in DOMAIN wms_p.log :
                            wms_p.log[i] = wms_p.global_marks[name - 65].data
                       /\ wms_p.global_marks[name - 65].data.timestamp >
                            EditorTimestamp(wms_p.ed, name)
               /\ ~wms_p.global_marks[name - 65].can_free_entry
                    => /\ wms_p.global_marks[name - 65].data.timestamp =
                            EditorTimestamp(wms_p.ed, name)
                       /\ wms_p.global_marks[name - 65].data.data.fname =
                            mark_get_global(wms_p.ed.namedfm, name).fname
       /\ wms_p.global_marks[name - 65].data.type = kSDItemMissing
            => /\ \A ts \in RecordTimestamps(wms_p.log, name) :
                    ts <= EditorTimestamp(wms_p.ed, name)
               /\ EditorTimestamp(wms_p.ed, name) > 0 => NotPlaced(wms_p.ed, name)

\* The editor's mark B is not in the slot; of the two records of the file
\* for B the one not newer than the editor's mark was dropped and the newer
\* one is held.
C30_Witness ==
  /\ GlobalsMerged
  /\ NotPlaced(wms_p.ed, 66)
  /\ Len(wms_p.log) = 2
  /\ wms_p.log[1].data.name = 66 /\ wms_p.log[2].data.name = 66
  /\ wms_p.log[1].timestamp = EditorTimestamp(wms_p.ed, 66)
  /\ wms_p.log[2].timestamp > EditorTimestamp(wms_p.ed, 66)
  /\ wms_p.global_marks[1] = PFSE(TRUE, wms_p.log[2])

\* The editor's mark A, in the slot, was kept against a record of the file
\* with the same timestamp.
C30_TieKeepsEditorMark ==
  /\ GlobalsMerged
  /\ \E i \in DOMAIN wms_p.log :
       /\ wms_p.log[i].data.name = 65
       /\ wms_p.log[i].timestamp = EditorTimestamp(wms_p.ed, 65)
  /\ ~wms_p.global_marks[0].can_free_entry
  /\ wms_p.global_marks[0].data.type = kSDItemGlobalMark
  /\ wms_p.global_marks[0].data.data.fname = <<101>>

\* The editor's mark B is not in the slot and no record is held for B,
\* the records of the file for B not being newer than it.
C30_NothingHeld ==
  /\ GlobalsMerged
  /\ NotPlaced(wms_p.ed, 66)
  /\ RecordTimestamps(wms_p.log, 66) # {}
  /\ wms_p.global_marks[1].data.type = kSDItemMissing

\* ------------------------------------------------------------------------
\* What a write emits
\* ------------------------------------------------------------------------
\* Register a of the editor with nlines lines, set at the time ts.
EditorRegister(nlines, ts) ==
  [name |-> 97, y_array |-> [i \in 1..nlines |-> <<101>>], y_type |-> kMTLineWise,
   y_width |-> 0, timestamp |-> ts, additional_data |-> NoAdditionalData,
   is_unnamed |-> FALSE]

\* Editors without register a, with a register a of one line and with one
\* of three lines.
RegisterEditors ==
  {EmptyEditor}
  \cup {[EmptyEditor EXCEPT !.regs = <<EditorRegister(nlines, ts)>>] :
          nlines \in {1, 3}, ts \in 1..(MaxTs + 1)}

\* Records of register a in the previous file, of one line and of three.
FileRegisters ==
  {ReadRecord(kind, ts) : kind \in {"reg", "reg3"}, ts \in 1..(MaxTs + 1)}

RECURSIVE WireEntries(_)
WireEntries(recs) ==
  IF recs = <<>> THEN <<>> ELSE WireEntry(Head(recs)) \o WireEntries(Tail(recs))

\* A write that merges a previous file of register records, without a cap
\* on the lines of a register ('<' absent) and with a cap of 2.
InitRegs ==
  /\ \E ed \in RegisterEditors, max_reg_lines \in {-1, 2},
        recs \in SeqsUpTo(FileRegisters, MaxFileRecs) :
       wms_p = [pc |-> "write", ed |-> ed,
                opts |-> [Options(-1) EXCEPT !.max_reg_lines = max_reg_lines],
                recs |-> recs, out |-> NoWrite]
  /\ HmsIdle /\ codec = CodecIdle /\ FileIdle

EmitWrite ==
  /\ wms_p.pc = "write"
  /\ wms_p' = [wms_p EXCEPT
                 !.pc = "done",
                 !.out = shada_write(wms_p.ed, wms_p.opts, WireEntries(wms_p.recs), IoOk)]
  /\ UNCHANGED <<hmsVars, codecVars, fileVars>>

NextRegs ==
  \/ EmitWrite

SpecRegs == InitRegs /\ [][NextRegs]_vars

EmitDone == "out" \in DOMAIN wms_p /\ wms_p.pc = "done"

\* The entries a write put into its file, in the order written.
RECURSIVE EmittedOf(_)
EmittedOf(packs) ==
  IF packs = <<>> THEN <<>>
  ELSE (IF Head(packs).written THEN <<Head(packs).entry>> ELSE <<>>)
       \o EmittedOf(Tail(packs))

Emitted == EmittedOf(wms_p.out.packs)

EmittedRegisters(name) ==
  SelectSeq(Emitted, LAMBDA e : e.type = kSDItemRegister /\ e.data.name = name)

\* The timestamps of register name in the editor and in the previous file.
RegisterTimestamps(ed, recs, name) ==
  {ed.regs[i].timestamp : i \in {k \in DOMAIN ed.regs : ed.regs[k].name = name}}
  \cup {recs[i].timestamp : i \in {k \in DOMAIN recs : recs[k].data.name = name}}

\* The register emitted for name is the newest of the editor's and the
\* file's, the editor's when that is among the newest.
NewestRegisterEmitted(ed, recs, name) ==
  RegisterTimestamps(ed, recs, name) # {}
  => /\ Len(EmittedRegisters(name)) = 1
     /\ \A ts \in RegisterTimestamps(ed, recs, name) :
          EmittedRegisters(name)[1].timestamp >= ts
     /\ \A i \in DOMAIN ed.regs :
          (ed.regs[i].name = name
           /\ ed.regs[i].timestamp = EmittedRegisters(name)[1].timestamp)
            => EmittedRegisters(name)[1] = RegisterEntry(ed.regs[i])

\* The editor's register name has more lines than the write allows.
EditorRegisterCapped(ed, opts, name) ==
  \E i \in DOMAIN ed.regs :
    /\ ed.regs[i].name = name
    /\ opts.max_reg_lines >= 0
    /\ Len(ed.regs[i].y_array) > opts.max_reg_lines

\* C31 as stated: the record emitted for a register is the one with the
\* greatest timestamp among the editor's register and the records of the
\* file for it, the editor's copy on a tie.
C31_NewestRegisterEmitted ==
  EmitDone => NewestRegisterEmitted(wms_p.ed, wms_p.recs, 97)

\* The same holds whenever the editor's register is within the cap on the
\* lines of a register.
C31_NewestEmittedUnlessCapped ==
  (EmitDone /\ ~EditorRegisterCapped(wms_p.ed, wms_p.opts, 97))
  => NewestRegisterEmitted(wms_p.ed, wms_p.recs, 97)

\* The editor's register is over the cap and newer than the record of the
\* file, and the record of the file is what the write emits.
C31_OlderFileRegisterEmitted ==
  /\ EmitDone
  /\ EditorRegisterCapped(wms_p.ed, wms_p.opts, 97)
  /\ Len(wms_p.recs) = 1
  /\ wms_p.recs[1].timestamp < wms_p.ed.regs[1].timestamp
  /\ EmittedRegisters(97) = <<wms_p.recs[1]>>

\* C32 as stated: with a cap on the lines of a register no Register record
\* with more lines is emitted, be it the editor's or the previous file's.
C32_NoLongRegisterEmitted ==
  (EmitDone /\ wms_p.opts.max_reg_lines >= 0)
  => \A i \in DOMAIN Emitted :
       Emitted[i].type = kSDItemRegister
         => Len(Emitted[i].data.contents) <= wms_p.opts.max_reg_lines

\* A register of the editor over the cap is never emitted.
C32_EditorRegisterCapped ==
  (EmitDone /\ EditorRegisterCapped(wms_p.ed, wms_p.opts, 97))
  => \A i \in DOMAIN Emitted : Emitted[i] # RegisterEntry(wms_p.ed.regs[1])

\* A record of the file with three lines is emitted under a cap of 2.
C32_LongFileRegisterEmitted ==
  /\ EmitDone
  /\ wms_p.opts.max_reg_lines = 2
  /\ wms_p.ed = EmptyEditor
  /\ \E i \in DOMAIN Emitted :
       /\ Emitted[i].type = kSDItemRegister
       /\ Len(Emitted[i].data.contents) = 3
       /\ \E k \in DOMAIN wms_p.recs : wms_p.recs[k] = Emitted[i]

\* ------------------------------------------------------------------------
\* The order of the records of a write and the files whose marks it emits
\* ------------------------------------------------------------------------
\* The local mark name of the file fname.
LocalMark(fname, name, timestamp) ==
  Entry(kSDItemLocalMark, timestamp,
        [name |-> name, mark |-> [lnum |-> 3, col |-> 0, coladd |-> 0],
         fname |-> fname], NoAdditionalData)

\* A buffer of the editor with the file fname.
Buffer(fname, listed, marks, changelist) ==
  [fname |-> fname, listed |-> listed, marks |-> marks, changelist |-> changelist,
   last_cursor |-> DEFAULT_POS, additional_data |-> NoAdditionalData]

\* An editor with a value of every kind at time 1, in the listed buffer f
\* with the cursor at line 4, and with a second buffer g whose mark a was
\* set at time tg.
EmitEditor(tg, glisted) ==
  [BusyEditor(1) EXCEPT
     !.sub_pattern = [NoPattern EXCEPT !.pat = <<113>>, !.timestamp = 1],
     !.replacement = [sub |-> <<114>>, timestamp |-> 1,
                      additional_data |-> NoAdditionalData],
     !.namedfm = <<EditorMark(65, <<102>>, 1), EditorMark(48, <<102>>, 1)>>,
     !.jumps = <<Jump(1, 1)>>,
     !.buffers = <<Buffer(<<102>>, TRUE, <<LocalMark(<<102>>, 97, 1)>>,
                          <<Change(<<102>>, 1, 1)>>),
                   Buffer(<<103>>, glisted, <<LocalMark(<<103>>, 97, tg)>>, <<>>)>>,
     !.curbuf = 1,
     !.cursor = [lnum |-> 4, col |-> 0, coladd |-> 0]]

EmitEditors ==
  {EmptyEditor} \cup {EmitEditor(tg, glisted) : tg \in {1, MaxTs + 1}, glisted \in BOOLEAN}

\* The records of the previous file: a command-line history entry, a
\* history entry of a type the editor does not know, marks a of the files f
\* and g, a mark of g with a name the editor does not know, a change of g
\* and a register.
EmitFileRecords ==
  {HistoryEntry(HIST_CMD, <<104>>, 1, NoAdditionalData),
   HistoryEntry(HIST_COUNT, <<104>>, 1, NoAdditionalData),
   LocalMark(<<102>>, 97, MaxTs), LocalMark(<<103>>, 63, 1), Change(<<103>>, 2, 1),
   ReadRecord("reg", 2)}
  \cup {LocalMark(<<103>>, 97, ts) : ts \in {1, MaxTs}}

\* The orders qsort may leave files of equal rank in.
QsortOrders == {<<(<<102>>), <<103>> >>, <<(<<103>>), <<102>> >>}

InitEmit ==
  /\ \E ed \in EmitEditors, full \in BOOLEAN, num_marked_files \in 0..2,
        recs \in SeqsUpTo(EmitFileRecords, MaxFileRecs) :
       wms_p = [pc |-> "write", ed |-> ed,
                opts |-> [Options(-1) EXCEPT !.dump_buflist = full,
                                             !.dump_global_marks = full,
                                             !.num_marked_files = num_marked_files],
                recs |-> recs, out |-> NoWrite, merged |-> NoFiles]
  /\ HmsIdle /\ codec = CodecIdle /\ FileIdle

\* The file marks of the merger state when the loop over the files begins.
MergedFileMarks(ed, opts, rd, io) ==
  WriteMerged(
    WriteSnapshotOf(
      WriteVariables(
        WriteBufferList(
          WritePack(WriteInit(ed, opts, rd # NULL), HeaderEntry(MaxKbyteOf(opts), ed.now),
                    0, io),
          ed, opts, io),
        ed, opts, WriteCtx(ed, opts, io)),
      ed, opts),
    rd, WriteCtx(ed, opts, io)).wms.file_marks

EmitSorted ==
  /\ wms_p.pc = "write"
  /\ "merged" \in DOMAIN wms_p
  /\ \E qsort \in QsortOrders :
       wms_p' = [wms_p EXCEPT
                   !.pc = "done",
                   !.out = shada_write(wms_p.ed, wms_p.opts, WireEntries(wms_p.recs),
                                       [IoOk EXCEPT !.qsort = qsort]),
                   !.merged = MergedFileMarks(wms_p.ed, wms_p.opts,
                                              WireEntries(wms_p.recs),
                                              [IoOk EXCEPT !.qsort = qsort])]
  /\ UNCHANGED <<hmsVars, codecVars, fileVars>>

NextEmit ==
  \/ EmitSorted

SpecEmit == InitEmit /\ [][NextEmit]_vars

\* The steps of a write at which it may emit a record: 0 the header, 1 the
\* buffer list, 2 the editor's variables, 3 the merge pass over the previous
\* file, which emits at once what it does not merge, then the slots in the
\* order of the emission, 11 the marks and changes of the files and 12 the
\* histories.
EmitSteps(entry) ==
  CASE entry.type = kSDItemHeader -> {0}
    [] entry.type = kSDItemBufferList -> {1}
    [] entry.type = kSDItemVariable -> {2, 3}
    [] entry.type = kSDItemUnknown -> {3}
    [] entry.type = kSDItemGlobalMark ->
         IF ascii_isdigit(entry.data.name) THEN {5}
         ELSE IF mark_global_index(entry.data.name) < 0 THEN {3}
         ELSE {4}
    [] entry.type = kSDItemRegister -> IF op_reg_index(entry.data.name) < 0 THEN {3} ELSE {6}
    [] entry.type = kSDItemJump -> {7}
    [] entry.type = kSDItemSearchPattern ->
         IF entry.data.is_substitute_pattern THEN {9} ELSE {8}
    [] entry.type = kSDItemSubString -> {10}
    [] entry.type \in {kSDItemLocalMark, kSDItemChange} -> {11}
    [] entry.type = kSDItemHistoryEntry ->
         IF entry.data.histtype >= HIST_COUNT THEN {3} ELSE {12}
    [] OTHER -> {}

\* The entries can be emitted by steps that never go back, from step on.
RECURSIVE InStepOrder(_, _)
InStepOrder(entries, step) ==
  IF entries = <<>> THEN TRUE
  ELSE /\ \E s \in EmitSteps(Head(entries)) : s >= step
       /\ InStepOrder(Tail(entries),
                      CHOOSE s \in EmitSteps(Head(entries)) :
                        /\ s >= step
                        /\ \A t \in EmitSteps(Head(entries)) : t >= step => s <= t)

\* The place of a record in the order the emission is said to have: global
\* marks with a letter, numbered marks, registers, jumps, the search pattern,
\* the substitute pattern, the replacement string, marks and changes of the
\* files, histories; 0 for the records the order does not speak of.
StatedPlace(entry) ==
  CASE entry.type = kSDItemGlobalMark -> IF ascii_isdigit(entry.data.name) THEN 2 ELSE 1
    [] entry.type = kSDItemRegister -> 3
    [] entry.type = kSDItemJump -> 4
    [] entry.type = kSDItemSearchPattern -> IF entry.data.is_substitute_pattern THEN 6 ELSE 5
    [] entry.type = kSDItemSubString -> 7
    [] entry.type \in {kSDItemLocalMark, kSDItemChange} -> 8
    [] entry.type = kSDItemHistoryEntry -> 9
    [] OTHER -> 0

HeaderAndBufferListFirst ==
  /\ Emitted # <<>>
  /\ Emitted[1].type = kSDItemHeader
  /\ wms_p.opts.dump_buflist => (Len(Emitted) >= 2 /\ Emitted[2].type = kSDItemBufferList)

\* C33 as stated: the header is first, the buffer list next when enabled,
\* the merged state follows in the stated order, and no history record
\* precedes a mark, a register or a jump.
C33_StatedOrder ==
  EmitDone
  => /\ HeaderAndBufferListFirst
     /\ \A i, j \in DOMAIN Emitted :
          (i < j /\ StatedPlace(Emitted[i]) > 0 /\ StatedPlace(Emitted[j]) > 0)
            => StatedPlace(Emitted[i]) <= StatedPlace(Emitted[j])

\* C33 with the records the merge pass does not merge: they are emitted
\* during the pass, after the editor's variables and before the slots, a
\* history record of an unknown type among them; everything else follows in
\* the stated order.
C33_OrderWithPassThrough ==
  EmitDone => (HeaderAndBufferListFirst /\ InStepOrder(Emitted, 0))

\* A write that emits a record of every kind, a history record of an
\* unknown type before the marks and a history record of a known type after
\* them.
C33_Witness ==
  /\ EmitDone
  /\ {Emitted[i].type : i \in DOMAIN Emitted}
       = {kSDItemHeader, kSDItemBufferList, kSDItemVariable, kSDItemGlobalMark,
          kSDItemRegister, kSDItemJump, kSDItemSearchPattern, kSDItemSubString,
          kSDItemLocalMark, kSDItemChange, kSDItemHistoryEntry}
  /\ \E i, j, k \in DOMAIN Emitted :
       /\ i < j /\ j < k
       /\ Emitted[i].type = kSDItemHistoryEntry /\ Emitted[i].data.histtype = HIST_COUNT
       /\ Emitted[j].type = kSDItemLocalMark
       /\ Emitted[k].type = kSDItemHistoryEntry /\ Emitted[k].data.histtype = HIST_CMD

\* The timestamps of the marks and changes the merger holds for a file.
RetainedTimestamps(filemarks) ==
  {filemarks.marks[i].data.timestamp :
     i \in {k \in DOMAIN filemarks.marks : filemarks.marks[k].data.type # kSDItemMissing}}
  \cup {filemarks.changes[i].data.timestamp : i \in DOMAIN filemarks.changes}
  \cup {filemarks.additional_marks[i].timestamp : i \in DOMAIN filemarks.additional_marks}

\* The greatest of them, 0 when the merger holds nothing for the file.
RetainedRank(filemarks) ==
  IF RetainedTimestamps(filemarks) = {} THEN 0
  ELSE CHOOSE t \in RetainedTimestamps(filemarks) :
         \A u \in RetainedTimestamps(filemarks) : u <= t

\* The files the write emitted marks or changes of.
EmittedFiles ==
  {Emitted[i].data.fname :
     i \in {k \in DOMAIN Emitted : Emitted[k].type \in {kSDItemLocalMark, kSDItemChange}}}

\* The files that rank as high as f or higher by what the merger holds.
RankedNotBelow(f) ==
  {g \in DOMAIN wms_p.merged \ {f} :
     RetainedRank(wms_p.merged[g]) >= RetainedRank(wms_p.merged[f])}

\* Every file of which the merger holds something is emitted when fewer
\* than num_marked_files other files rank as high.
HighestRetainedEmitted ==
  \A f \in DOMAIN wms_p.merged :
    (/\ RetainedTimestamps(wms_p.merged[f]) # {}
     /\ Cardinality(RankedNotBelow(f)) < wms_p.opts.num_marked_files)
      => f \in EmittedFiles

\* C34 as stated: marks and changes are emitted for at most
\* num_marked_files files, those ranking highest by the greatest timestamp
\* among the marks and changes the merger retained.
C34_HighestRetainedFilesEmitted ==
  EmitDone
  => /\ Cardinality(EmittedFiles) <= wms_p.opts.num_marked_files
     /\ HighestRetainedEmitted

\* The rank the write sorts by is the rank by what the merger holds.
RankIsRetained ==
  \A f \in DOMAIN wms_p.merged :
    wms_p.merged[f].greatest_timestamp = RetainedRank(wms_p.merged[f])

\* The ranking is as stated whenever no record raised the rank of a file
\* without being retained.
C34_EmittedWhenRankIsRetained ==
  (EmitDone /\ RankIsRetained)
  => /\ Cardinality(EmittedFiles) <= wms_p.opts.num_marked_files
     /\ HighestRetainedEmitted

\* Never more files than num_marked_files.
C34_AtMostNumMarkedFiles ==
  EmitDone => Cardinality(EmittedFiles) <= wms_p.opts.num_marked_files

\* A record of the file that was dropped made its file g the only one
\* chosen, and the write emits no mark of any file although the merger
\* holds marks of f.
C34_DroppedRecordRaisedRank ==
  /\ EmitDone
  /\ wms_p.opts.num_marked_files = 1
  /\ wms_p.recs = <<LocalMark(<<103>>, 97, MaxTs)>>
  /\ DOMAIN wms_p.merged = {<<102>>, <<103>>}
  /\ RetainedTimestamps(wms_p.merged[<<103>>]) = {}
  /\ wms_p.merged[<<103>>].greatest_timestamp = MaxTs
  /\ RetainedRank(wms_p.merged[<<102>>]) = 1
  /\ EmittedFiles = {}

\* The records the merger owns (can_free_entry) among those it holds for a
\* file; the marks with unknown names are always the file's own.
OwnedHeld(filemarks) ==
  {filemarks.marks[i].data :
     i \in {k \in DOMAIN filemarks.marks : filemarks.marks[k].can_free_entry}}
  \cup {filemarks.changes[i].data :
          i \in {k \in DOMAIN filemarks.changes : filemarks.changes[k].can_free_entry}}
  \cup {filemarks.additional_marks[i] : i \in DOMAIN filemarks.additional_marks}

\* The records handed to shada_pack_pfreed_entry or packed and freed in the
\* loop over the marks with unknown names: these the emission frees.
FreedByEmission == {wms_p.out.packs[i].entry : i \in DOMAIN wms_p.out.packs}

\* C35 as stated, for the marks and changes of the files: every record of
\* the previous file that the merger still holds when the merge pass ends is
\* freed by the end of the write.
C35_HeldRecordsFreed ==
  EmitDone
  => \A f \in DOMAIN wms_p.merged : OwnedHeld(wms_p.merged[f]) \subseteq FreedByEmission

\* The records held for the files that are emitted are freed.
C35_EmittedFilesFreed ==
  EmitDone
  => \A f \in EmittedFiles : OwnedHeld(wms_p.merged[f]) \subseteq FreedByEmission

\* The merger holds a mark of g that came from the previous file, g is not
\* among the num_marked_files files of the write, and the mark is neither
\* packed nor freed.
C35_UnemittedFileLeaks ==
  /\ EmitDone
  /\ wms_p.ed = EmptyEditor
  /\ wms_p.opts.num_marked_files = 1
  /\ wms_p.recs = <<LocalMark(<<102>>, 97, MaxTs), LocalMark(<<103>>, 97, 1)>>
  /\ EmittedFiles = {<<102>>}
  /\ OwnedHeld(wms_p.merged[<<103>>]) = {LocalMark(<<103>>, 97, 1)}
  /\ LocalMark(<<103>>, 97, 1) \notin FreedByEmission

\* ------------------------------------------------------------------------
\* A merging write whose reading of the previous file fails
\* ------------------------------------------------------------------------
\* The previous files: records of known and of unknown type.
ErrFiles == SeqsUpTo({"hist", "reg", "unk"}, MaxFileRecs)

InitErr ==
  /\ HmsIdle /\ codec = CodecIdle /\ WmsIdle
  /\ \E src \in ErrFiles : fs = InitFs(src, FALSE, 0)
  /\ \E ed \in {EmptyEditor, BusyEditor(1)} :
       sess = <<Session("write", ed, Options(-1), FALSE)>>

\* shada_write while the system fails a read of the previous file at the
\* offset err_at, the start of one of its records, or does not fail (-1).
WfWriteErr(s, err_at) == WfWrite(s, [IoOk EXCEPT !.err_at = err_at])

NextErr ==
  \/ \E s \in DOMAIN sess : WfOpenReader(s, FALSE)
  \/ \E s \in DOMAIN sess : WfOpenTemp(s, FALSE)
  \/ \E s \in DOMAIN sess, err_at \in ReadErrorOffsets(fs.src) : WfWriteErr(s, err_at)
  \/ \E s \in DOMAIN sess, writable \in BOOLEAN, rename_ok \in BOOLEAN :
        WfRename(s, writable, rename_ok)
  \/ \E s \in DOMAIN sess : WfRemove(s)

SpecErr == InitErr /\ [][NextErr]_vars

\* A merging write that has finished and whose reader failed with a system
\* error before the end of the previous file.
ReadErrorWriteDone(s) ==
  /\ MergingWrite(s) /\ sess[s].pc = "done" /\ sess[s].sw # NoWrite
  /\ sess[s].io.err_at >= 0

\* C36 as stated: when the reader of the previous file fails with ReadError
\* part-way through the merge pass, the temporary file is not renamed over
\* the ShaDa file, which keeps the records that had not been read.
C36_ReadErrorKeepsTarget ==
  \A s \in DOMAIN sess :
    ReadErrorWriteDone(s)
    => /\ ~sess[s].did_remove
       /\ Contents(fs.target) = sess[s].prev

\* What the write does: the read error leaves the result of the merge pass
\* as it was, and the write ends as a write that merged the records before
\* the error would have ended.
C36_ReadErrorAsEndOfFile ==
  \A s \in DOMAIN sess :
    ReadErrorWriteDone(s)
    => \E k \in 0..(Len(fs.src) - 1) :
         /\ sess[s].io.err_at = Len(FileBytes(SubSeq(fs.src, 1, k)))
         /\ sess[s].sw = shada_write(sess[s].ed, sess[s].opts,
                                     FileBytes(SubSeq(fs.src, 1, k)), IoOk)

\* The read fails at the second record, the register; the write succeeds,
\* the temporary file replaces the ShaDa file and the register is lost.
C36_UnreadRecordsLost ==
  \E s \in DOMAIN sess :
    /\ ReadErrorWriteDone(s)
    /\ sess[s].ed = EmptyEditor
    /\ fs.src = <<"hist", "reg">>
    /\ sess[s].io.err_at = RecordOffset(fs.src, 2)
    /\ sess[s].sw.ret = kSDWriteSuccessful
    /\ sess[s].did_remove
    /\ sess[s].sw.reads = <<FileItems["hist"].entry>>
    /\ Contents(fs.target) = sess[s].sw.file
    /\ \A i \in DOMAIN sess[s].sw.packs : sess[s].sw.packs[i].entry.type # kSDItemRegister

\* ------------------------------------------------------------------------
\* What a merging write puts in the place of the ShaDa file
\* ------------------------------------------------------------------------
\* The write has renamed its temporary file over the ShaDa file.
RenamedOver(s) == MergingWrite(s) /\ sess[s].did_remove

\* The file written begins with the Header record.
BeginsWithHeader(sw) ==
  /\ sw.file # <<>>
  /\ sw.packs # <<>>
  /\ sw.packs[1].entry.type = kSDItemHeader
  /\ sw.packs[1].written

\* C37 as stated: whenever a merging write renames its temporary file over
\* the ShaDa file, that file holds at least the Header record, for every
\* item size, 0 included: the ShaDa file is never replaced by an empty one.
C37_RenamedFileHasHeader ==
  \A s \in DOMAIN sess :
    RenamedOver(s)
    => /\ BeginsWithHeader(sess[s].sw)
       /\ Contents(sess[s].sd_writer) # <<>>

\* It holds for every item size other than 0 when no write to the
\* temporary file fails.
C37_HeaderUnlessZeroSize ==
  \A s \in DOMAIN sess :
    (RenamedOver(s) /\ MaxKbyteOf(sess[s].opts) # 0 /\ NoIoFailure(sess[s].io))
    => /\ BeginsWithHeader(sess[s].sw)
       /\ Contents(sess[s].sd_writer) # <<>>

\* With an item size of 0 the write returns at once, nothing is read or
\* written, and the empty temporary file replaces a ShaDa file that held a
\* record.
C37_EmptyFileReplacesTarget ==
  \E s \in DOMAIN sess :
    /\ RenamedOver(s) /\ sess[s].pc = "done"
    /\ sess[s].opts = Options(0)
    /\ fs.src = <<"hist">>
    /\ sess[s].io = IoOk
    /\ sess[s].prev = FileBytes(fs.src)
    /\ sess[s].sw.ret = kSDWriteSuccessful
    /\ sess[s].sw.reads = <<>> /\ sess[s].sw.packs = <<>>
    /\ fs.target = sess[s].sd_writer
    /\ Contents(fs.target) = <<>>

\* ------------------------------------------------------------------------
\* The record loops of shada_read and shada_read_when_writing
\* ------------------------------------------------------------------------
\* The statuses on which both loops stop.
LoopEndStatuses ==
  {kSDReadStatusFinished, kSDReadStatusNotShaDa, kSDReadStatusReadError}

\* The byte streams: files made of records, of a history record whose
\* payload is malformed and of a byte that starts no record, and every
\* prefix of such a file. inside says that the stream ends inside a record.
LoopFiles == SeqsUpTo({"hist", "reg", "unk", "bad", "junk"}, MaxFileRecs)

RecordBoundaries(src) == {Len(FileBytes(SubSeq(src, 1, k))) : k \in 0..Len(src)}

\* The flags of a reader that wants every record and of one that skips
\* registers, histories and unknown records.
LoopFlags ==
  {kSDReadUndisableableData \cup {kSDReadUnknown, kSDItemHistoryEntry, kSDItemRegister},
   kSDReadUndisableableData}

\* What shada_read_next_item returns at every position of the stream rd:
\* the status and the position after the call.
NextItems(rd, flags, max_kbyte) ==
  [p \in 0..Len(rd.data) |->
     [status |-> shada_read_next_item(rd, p, flags, max_kbyte).status,
      pos |-> shada_read_next_item(rd, p, flags, max_kbyte).pos]]

\* shada_read reads without a size limit, a write with that of 's'.
LoopMaxKbyte(loop) == IF loop = "shada_read" THEN 0 ELSE 10

InitLoop ==
  /\ \E src \in LoopFiles, loop \in {"shada_read", "shada_read_when_writing"},
        flags \in LoopFlags, err_at \in {-1, 4} :
       \E n \in 0..Len(FileBytes(src)) :
         wms_p = [pc |-> "loop", loop |-> loop,
                  rd |-> [data |-> SubSeq(FileBytes(src), 1, n), err_at |-> err_at],
                  inside |-> n \notin RecordBoundaries(src),
                  next_item |-> NextItems([data |-> SubSeq(FileBytes(src), 1, n),
                                           err_at |-> err_at],
                                          flags, LoopMaxKbyte(loop)),
                  pos |-> 0, prev_pos |-> 0, called |-> FALSE,
                  status |-> kSDReadStatusSuccess]
  /\ HmsIdle /\ codec = CodecIdle /\ FileIdle

\* One turn of a loop: shada_read_next_item is called at the position the
\* reader is at; the loop stops on Finished, NotShaDa and ReadError and goes
\* on after Success and Malformed.
LoopCall(loop) ==
  /\ wms_p.pc = "loop" /\ wms_p.loop = loop
  /\ wms_p' = [wms_p EXCEPT
                 !.status = wms_p.next_item[wms_p.pos].status,
                 !.pos = wms_p.next_item[wms_p.pos].pos,
                 !.prev_pos = wms_p.pos,
                 !.called = TRUE,
                 !.pc = IF wms_p.next_item[wms_p.pos].status \in LoopEndStatuses
                          THEN "ended" ELSE "loop"]
  /\ UNCHANGED <<hmsVars, codecVars, fileVars>>

ReadLoopCall == LoopCall("shada_read")

MergeLoopCall == LoopCall("shada_read_when_writing")

NextLoop ==
  \/ ReadLoopCall
  \/ MergeLoopCall

\* Nothing but the loop runs, so a loop that can take a turn takes it.
SpecLoop == InitLoop /\ [][NextLoop]_vars /\ WF_vars(NextLoop)

InLoop == "loop" \in DOMAIN wms_p

\* The call that was made consumed at least one byte or returned a status
\* that stops the loop.
CallProgress ==
  (InLoop /\ wms_p.called)
  => (wms_p.pos > wms_p.prev_pos \/ wms_p.status \in LoopEndStatuses)

\* The loop has stopped: with Finished only when every byte is consumed and
\* the stream ends at a record boundary, and with NotShaDa when the stream
\* ends inside a record and no read fails.
LoopEnded ==
  /\ InLoop /\ wms_p.pc = "ended"
  /\ wms_p.status \in LoopEndStatuses
  /\ wms_p.status = kSDReadStatusFinished
       => (wms_p.pos = Len(wms_p.rd.data) /\ ~wms_p.inside)
  /\ (wms_p.inside /\ wms_p.rd.err_at = -1) => wms_p.status = kSDReadStatusNotShaDa

\* C38: on every finite byte stream the record loops of shada_read and
\* shada_read_when_writing terminate: every call of shada_read_next_item
\* consumes at least one byte or returns Finished, NotShaDa or ReadError,
\* and the loop ends with Finished at a record boundary or with NotShaDa
\* when the stream ends inside a record.
C38_RecordLoopTerminates == [](CallProgress) /\ <>(LoopEnded)

\* A loop that went past a malformed record and stopped with NotShaDa
\* inside the header or the payload of the record after it.
C38_Witness ==
  /\ InLoop /\ wms_p.pc = "ended"
  /\ wms_p.called /\ wms_p.inside /\ wms_p.rd.err_at = -1
  /\ wms_p.status = kSDReadStatusNotShaDa
  /\ wms_p.prev_pos = wms_p.pos
  /\ wms_p.pos = Len(FileItems["bad"].bytes)
  /\ Len(wms_p.rd.data) > wms_p.pos

\* ------------------------------------------------------------------------
\* The assertions of hmll_remove and hmll_insert
\* ------------------------------------------------------------------------
\* The arena indices of the nodes of the list from first to last.
RECURSIVE HmllNodes(_, _, _)
HmllNodes(hmll, cur_entry, fuel) ==
  IF cur_entry = 0 \/ fuel = 0 THEN <<>>
  ELSE <<cur_entry>> \o HmllNodes(hmll, hmll.entries[cur_entry].next, fuel - 1)

RingNodes == HmllNodes(hms_p.hmll, hms_p.hmll.first, hms_p.hmll.size + 1)

SeqRange(seq) == {seq[i] : i \in DOMAIN seq}

\* contained_entries holds one key per node of the ring, the string of
\* that node, and maps it to the node.
MapMatchesRing ==
  LET hmll == hms_p.hmll IN
  /\ Cardinality(DOMAIN hmll.contained_entries) = Len(RingNodes)
  /\ Cardinality(SeqRange(RingNodes)) = Len(RingNodes)
  /\ \A n \in SeqRange(RingNodes) :
       /\ HistKey(hmll.entries[n].data) \in DOMAIN hmll.contained_entries
       /\ hmll.contained_entries[HistKey(hmll.entries[n].data)] = n

\* C39: for every sequence of hms_insert calls on a ring of capacity
\* N >= 1 no assertion of hmll_remove or hmll_insert fails: free_entry is
\* NULL when a node other than the top arena node is removed, the number
\* of arena nodes handed out is num_entries (one more while free_entry is
\* set, and free_entry is NULL again when hms_insert returns), first is
\* non-NULL when an entry has to be evicted, and the string map holds
\* exactly one key per ring node, pointing at that node.
C39_HmllAssertionsHold ==
  /\ ~hms_p.hmll.assert_failed
  /\ hms_p.hmll.free_entry = 0
  /\ hms_p.hmll.last_free_entry = hms_p.hmll.num_entries
  /\ hms_p.hmll.num_entries <= hms_p.hmll.size
  /\ Len(RingNodes) = hms_p.hmll.num_entries
  /\ (hms_p.hmll.num_entries > 0) => (hms_p.hmll.first # 0 /\ hms_p.hmll.last # 0)
  /\ MapMatchesRing

\* A third string went into a full ring of two: the first node, which is
\* not the top arena node, was evicted through free_entry and holds the
\* new entry.
C39_Witness ==
  /\ hms_phase = "ring"
  /\ hms_p.hmll.size = 2 /\ Len(hms_log.seq) = 3
  /\ AscendingDistinct(hms_log.seq)
  /\ RingNodes = <<2, 1>>
  /\ hms_p.hmll.contained_entries[HistKey(hms_log.seq[3])] = 1
  /\ HistKey(hms_log.seq[1]) \notin DOMAIN hms_p.hmll.contained_entries

====
